---- MODULE Spec2Model ----
(***************************************************************************)
(* State-machine model of the resume-tailoring backend                     *)
(* (dpeshrijal/pdf-summarizer-backend).  Every Lambda handler is one       *)
(* action; the three DynamoDB tables, the Pinecone index and the queue of  *)
(* asynchronous invocations are the state.  Calls to external services     *)
(* (DynamoDB, Lambda invoke, Gemini, Pinecone) may raise: each action      *)
(* draws the outcome of the calls it makes from a small set.               *)
(***************************************************************************)
EXTENDS Integers, Sequences, FiniteSets, TLC

\* ------------------------------------------------------------------ bounds
MaxJobs == 2          \* job ids handed out by startGeneration
MaxPipelineJobs == 1  \* jobs created where the pipeline runs them (Spec)
MaxDeliveries == 2    \* deliveries of one asynchronous invocation event
MaxPurchases == 1     \* purchase webhooks that reach the profile table
MaxChunks == 1        \* chunks of one ingested document
MaxDeviations == 2    \* parts of a model output that are not well-formed
MaxLen == 5           \* characters of a text given to chunk_text
MaxSize == 4          \* chunk_size given to chunk_text
MaxOverlap == 4       \* chunk_overlap given to chunk_text
MaxIterations == 7    \* iterations of the chunk_text loop that are followed

\* ---------------------------------------------------- literals of the code
ChunkSize == 1000     \* chunk_text(text, chunk_size=1000, ...)
ChunkOverlap == 100   \* chunk_text(..., chunk_overlap=100)
BatchSize == 100      \* vectors per index.upsert call

\* ------------------------------------------------------- value universes
Users == {"u1", "u2"}
Files == {"f1"}
JobIds == 1..MaxJobs
NoItem == [none |-> TRUE]  \* get_item response without 'Item'
Absent == "Absent"        \* attribute not present in a response body
None == "None"            \* Python None / missing request field
CreditValues == {-2, 3}   \* 'credits' values a webhook body may carry
DefaultCredits == 3

VectorIds == Files \X (0..(MaxChunks - 1))
NoVec == [none |-> TRUE]

\* resp.jobId is the job the request is about: the job startGeneration
\* created (0: none), the jobId parameter of getGenerationStatus.
VARIABLES
    summaries,   \* SUMMARIES_TABLE / TABLE_NAME: fileId -> ResumeFile item
    vectors,     \* Pinecone index: vector id -> metadata
    profiles,    \* USER_PROFILES_TABLE: userId -> UserProfile item
    jobs,        \* GENERATION_JOBS_TABLE: jobId -> GenerationJob item
    dispatched,  \* jobId -> asynchronous invocation events sent for it
    deliveries,  \* jobId -> number of pipeline runs delivered so far
    runs,        \* jobId -> what the last pipeline run for it did
    purchases,   \* number of webhooks that wrote the profile table
    resp,        \* response of the last HTTP handler that ran
    chunker,     \* the call of chunk_text in progress: arguments and locals
    inflight     \* profile requests in progress: what each has read

vars == <<summaries, vectors, profiles, jobs, dispatched, deliveries, runs,
          purchases, resp, chunker, inflight>>

\* No call of chunk_text, no profile request in progress.
NoCall == [pc |-> "idle"]
NoRequests == <<>>

\* ----------------------------------------------------------------- items
\* An item is a record holding exactly the attributes that are present.
Has(item, field) == field \in DOMAIN item

\* dict.get(field, default)
Get(item, field, default) ==
    IF Has(item, field) THEN item[field] ELSE default

\* item[field] = v
Put(item, field, v) ==
    [k \in DOMAIN item \cup {field} |-> IF k = field THEN v ELSE item[k]]

\* Profiles a user can have before any request of this model runs: none,
\* out of credits, one credit left, or the "unlimited" tier.
InitChoices == {"none", "empty", "one", "unlimited"}

InitProfile(u, c) ==
    IF c = "none" THEN NoItem
    ELSE IF c = "empty" THEN [userId |-> u, creditsRemaining |-> 0]
    ELSE IF c = "one" THEN [userId |-> u, creditsRemaining |-> 1]
    ELSE [userId |-> u, creditsRemaining |-> 0,
          subscriptionTier |-> "unlimited"]

\* The response of the generative model, by its parts: the ways one part
\* can differ from a well-formed one ("ok").
ContainerVariants == {"missing", "null", "number", "string", "object"}
EntryVariants == {"entry_null", "entry_string", "entry_incomplete"}
ScoreVariants == {"missing", "below", "above", "bool", "string", "null"}

Variants ==
    [resume |-> {"missing", "null", "string", "array"},
     coverLetter |-> {"missing", "null"},
     matchScore |-> {"missing", "null"},
     contact |-> {"missing", "null", "array", "no_name", "empty_email"},
     summary |-> {"missing"},
     skills |-> ContainerVariants \cup {"entry_string"},
     experience |-> ContainerVariants \cup EntryVariants,
     education |-> ContainerVariants \cup EntryVariants,
     projects |-> {"array", "object"} \cup EntryVariants,
     overallScore |-> ScoreVariants,
     skillsMatch |-> ScoreVariants,
     experienceMatch |-> ScoreVariants,
     educationMatch |-> ScoreVariants,
     strengths |-> {"missing", "string"}]

Slots == DOMAIN Variants

NoRun == [outcome |-> "none", owner |-> None, queries |-> <<>>,
          context |-> {}, llmCalled |-> FALSE]

NoResp == [op |-> "none", user |-> None, statusCode |-> 0, jobId |-> 0,
           body |-> [error |-> Absent]]

Init ==
    /\ summaries = [f \in Files |-> NoItem]
    /\ vectors = [v \in VectorIds |-> NoVec]
    /\ profiles = [u \in Users |-> NoItem]
    /\ jobs = [j \in JobIds |-> NoItem]
    /\ dispatched = [j \in JobIds |-> <<>>]
    /\ deliveries = [j \in JobIds |-> 0]
    /\ runs = [j \in JobIds |-> NoRun]
    /\ purchases = 0
    /\ resp = NoResp
    /\ chunker = NoCall
    /\ inflight = NoRequests

\* The deployment with user profiles already in the table and every file
\* uploaded by u1 and ingested.
InitCredits ==
    /\ summaries = [f \in Files |->
          [fileId |-> f, userId |-> "u1",
           processingStatus |-> "READY_FOR_QUERY"]]
    /\ vectors = [v \in VectorIds |-> NoVec]
    /\ \E c \in [Users -> InitChoices] :
          profiles = [u \in Users |-> InitProfile(u, c[u])]
    /\ jobs = [j \in JobIds |-> NoItem]
    /\ dispatched = [j \in JobIds |-> <<>>]
    /\ deliveries = [j \in JobIds |-> 0]
    /\ runs = [j \in JobIds |-> NoRun]
    /\ purchases = 0
    /\ resp = NoResp
    /\ chunker = NoCall
    /\ inflight = NoRequests

\* The deployment with u1's resume ingested and a job just started for it:
\* the state startGeneration leaves behind.
InitPipeline ==
    /\ summaries = [f \in Files |->
          [fileId |-> f, userId |-> "u1",
           processingStatus |-> "READY_FOR_QUERY"]]
    /\ vectors = [v \in VectorIds |->
          [original_file_id |-> v[1], user_id |-> "u1"]]
    /\ profiles = [u \in Users |-> NoItem]
    /\ jobs = [j \in JobIds |->
          IF j = 1
          THEN [jobId |-> j, userId |-> "u1",
                fileId |-> CHOOSE f \in Files : TRUE,
                status |-> "PROCESSING"]
          ELSE NoItem]
    /\ dispatched = [j \in JobIds |->
          IF j = 1
          THEN <<[jobId |-> j, userId |-> "u1",
                  fileId |-> CHOOSE f \in Files : TRUE]>>
          ELSE <<>>]
    /\ deliveries = [j \in JobIds |-> 0]
    /\ runs = [j \in JobIds |-> NoRun]
    /\ purchases = 0
    /\ resp = NoResp
    /\ chunker = NoCall
    /\ inflight = NoRequests

\* ------------------------------------------------------------- responses
Response(op, u, code, j, body) ==
    [op |-> op, user |-> u, statusCode |-> code, jobId |-> j, body |-> body]

create_unauthorized_response(op) ==
    Response(op, None, 401, 0, [error |-> "Authentication required"])

create_forbidden_response(op, u, message) ==
    Response(op, u, 403, 0, [error |-> message])

\* ------------------------------------------------------- clerk_validator
\* A call returns a value or raises: [raised |-> FALSE, value |-> v] or
\* [raised |-> TRUE].
Return(v) == [raised |-> FALSE, value |-> v]
Raise == [raised |-> TRUE]

\* The key ids of the published key set, and a key id that is not in it.
PublishedKeys == {"k1"}
KeyIds == PublishedKeys \cup {"k9"}

\* A token: the kid of its header (None: absent), the key that signed it
\* ("forged": none of Clerk's), whether it has expired, its sub claim.
Tokens ==
    [kid : KeyIds \cup {None}, signed_by : KeyIds \cup {"forged"},
     expired : BOOLEAN, sub : Users \cup {None}]

\* An Authorization header is the list of its words (header.split()); the
\* empty list: no header.
NoHeader == <<>>
NoToken == [none |-> TRUE]      \* Python None where a token is expected
NoPayload == [none |-> TRUE]    \* Python None where a payload is expected

Lower(word) ==
    IF word \in {"Bearer", "BEARER", "bearer"} THEN "bearer" ELSE "basic"

AuthHeaders ==
    {NoHeader}
    \cup {<<scheme, t>> : scheme \in {"Bearer", "bearer", "Basic"},
                          t \in Tokens}
    \cup {<<"Bearer">>}
    \cup {<<"Bearer", t, "x">> : t \in {tk \in Tokens : tk.sub = "u1"}}

\* An event: the header, and whether Clerk's JWKS endpoint answers.
Events == [header : AuthHeaders, fetchOk : BOOLEAN]

\* Lines 26-46.  args: the arguments of the call; the function has one
\* required parameter, domain.
get_clerk_jwks(args, fetchOk) ==
    IF Len(args) # 1 THEN Raise         \* TypeError: missing argument
    ELSE IF fetchOk THEN Return(PublishedKeys)
    ELSE Return({})                     \* None

\* Lines 49-84: the key for the token's kid, or None.
get_signing_key(token, fetchOk) ==
    LET kid == token.kid
        jwks == get_clerk_jwks(<<>>, fetchOk)       \* line 69
    IN
    IF kid = None THEN None
    ELSE IF jwks.raised THEN None                   \* lines 82-84
    ELSE IF jwks.value = {} THEN None
    ELSE IF kid \in jwks.value THEN kid
    ELSE None

\* Lines 87-124: the payload, or None.
verify_clerk_token(token, fetchOk) ==
    LET signing_key == get_signing_key(token, fetchOk) IN
    IF signing_key = None THEN NoPayload
    ELSE IF token.signed_by # signing_key THEN NoPayload \* InvalidTokenError
    ELSE IF token.expired THEN NoPayload            \* ExpiredSignatureError
    ELSE [sub |-> token.sub]

\* Lines 127-146: the token, or None.
extract_token_from_header(authorization_header) ==
    IF authorization_header = NoHeader THEN NoToken
    ELSE IF Len(authorization_header) # 2
            \/ Lower(authorization_header[1]) # "bearer"
    THEN NoToken
    ELSE authorization_header[2]

\* Lines 149-194: the user id, or None.
get_user_id_from_event(event) ==
    LET auth_header == event.header
        token == extract_token_from_header(auth_header)
        payload == verify_clerk_token(token, event.fetchOk)
    IN
    IF auth_header = NoHeader THEN None
    ELSE IF token = NoToken THEN None
    ELSE IF payload = NoPayload THEN None
    ELSE payload.sub                    \* None when there is no 'sub'

\* A handler's authentication check: what it learns about the caller.
Authenticate(event) ==
    /\ resp' = [op |-> "get_user_id_from_event", user |-> None,
                statusCode |-> 0, jobId |-> 0,
                body |-> [error |-> Absent,
                          user_id |-> get_user_id_from_event(event)],
                event |-> event]
    /\ UNCHANGED <<summaries, vectors, profiles, jobs, dispatched, deliveries,
                   runs, purchases>>

\* ------------------------------------------------ getSignedUploadUrl
\* uuid4 file id: an id no record uses yet.
FreshFiles == {f \in Files : summaries[f] = NoItem}

getSignedUploadUrl(u, putFails) ==
    /\ FreshFiles # {}
    /\ IF u = None
       THEN /\ resp' = create_unauthorized_response("getSignedUploadUrl")
            /\ UNCHANGED summaries
       ELSE IF putFails
       THEN /\ resp' = Response("getSignedUploadUrl", u, 500, 0,
                                [error |-> "Failed to generate URL"])
            /\ UNCHANGED summaries
       ELSE LET f == CHOOSE x \in FreshFiles : TRUE IN
            /\ summaries' = [summaries EXCEPT ![f] =
                   [fileId |-> f, userId |-> u, processingStatus |-> "PENDING"]]
            /\ resp' = Response("getSignedUploadUrl", u, 200, 0,
                                [error |-> Absent, fileId |-> f])
    /\ UNCHANGED <<vectors, profiles, jobs, dispatched, deliveries, runs,
                   purchases>>

\* ------------------------------------------------------------ DynamoDB
\* update_item with a SET expression: creates the item when the key is new
\* (only the attributes that are set exist), overwrites them otherwise.
SetFileReady(tbl, f) ==
    LET old == IF tbl[f] = NoItem THEN [fileId |-> f] ELSE tbl[f] IN
    [tbl EXCEPT ![f] = Put(old, "processingStatus", "READY_FOR_QUERY")]

SetFileFailed(tbl, f, msg, et) ==
    LET old == IF tbl[f] = NoItem THEN [fileId |-> f] ELSE tbl[f] IN
    [tbl EXCEPT ![f] = Put(Put(Put(old, "processingStatus", "FAILED"),
                               "summary", msg), "errorType", et)]

\* ------------------------------------------------------------ processPdf
\* The text extracted from a PDF, as the handler looks at it: its length in
\* characters, its number of words, and how many entries of each keyword
\* list of validate_resume_content occur in it.
Text(len, words, kw, contact, prof, nonres) ==
    [length |-> len, word_count |-> words, keyword_matches |-> kw,
     contact_matches |-> contact, professional_matches |-> prof,
     non_resume_matches |-> nonres]

EmptyText == Text(0, 0, 0, 0, 0, 0)          \* scanned pages: no text
ShortText == Text(300, 49, 5, 2, 3, 0)       \* a resume of 49 words
StoryText == Text(300, 50, 2, 1, 2, 0)       \* 50 words, nothing of a resume
PaperText == Text(300, 50, 4, 0, 0, 4)       \* an academic paper
ResumeText(n) == Text((ChunkSize - ChunkOverlap) * n, 50, 5, 2, 3, 0)

Texts ==
    {EmptyText, ShortText, StoryText, PaperText}
       \cup {ResumeText(n) : n \in 1..MaxChunks}

\* The documents of the generation life cycle: one without text and the
\* resumes.
LifecycleTexts == {EmptyText} \cup {ResumeText(n) : n \in 1..MaxChunks}

validate_resume_content(text) ==
    IF text.word_count < 50
    THEN [is_valid |-> FALSE, reason |-> "The document is too short"]
    ELSE IF /\ text.keyword_matches < 3
            /\ text.contact_matches < 2
            /\ text.professional_matches < 3
    THEN [is_valid |-> FALSE, reason |-> "No resume information"]
    ELSE IF text.non_resume_matches >= 4 /\ text.keyword_matches < 5
    THEN [is_valid |-> FALSE, reason |-> "An academic paper, book or article"]
    ELSE [is_valid |-> TRUE, reason |-> ""]

\* chunk_text on a text of n characters: the slices text[start:end] it
\* appends, a slice being its two offsets (Python clips end to n).
\* start += chunk_size - chunk_overlap
NextStart_NoOverlap(start, chunk_size, chunk_overlap) == start + chunk_size

NextStart_OverlapTwice(start, chunk_size, chunk_overlap) ==
    start + chunk_size - 2 * chunk_overlap

NextStart(start, chunk_size, chunk_overlap) ==
    start + chunk_size - chunk_overlap

RECURSIVE chunk_loop(_, _, _, _)
chunk_loop(n, start, chunk_size, chunk_overlap) ==
    IF start < n
    THEN <<[start |-> start,
            end |-> IF start + chunk_size < n THEN start + chunk_size ELSE n]>>
         \o chunk_loop(n, NextStart(start, chunk_size, chunk_overlap),
                       chunk_size, chunk_overlap)
    ELSE <<>>

chunk_text(n, chunk_size, chunk_overlap) ==
    IF n = 0 THEN <<>> ELSE chunk_loop(n, 0, chunk_size, chunk_overlap)

\* The same function, run one statement at a time on the text itself.  A
\* text is the sequence of its characters; the texts of the model have
\* characters that are all different, so that a chunk shows where it was cut.
TextOfLength(n) == [i \in 1..n |-> i]

\* text[start:end]: a negative index counts from the end, and indices beyond
\* either end are clamped.
PyIndex(i, n) ==
    IF i < 0 THEN (IF i + n < 0 THEN 0 ELSE i + n)
    ELSE IF i > n THEN n ELSE i

PySlice(text, start, end) ==
    LET lo == PyIndex(start, Len(text))
        hi == PyIndex(end, Len(text))
    IN IF lo < hi THEN SubSeq(text, lo + 1, hi) ELSE <<>>

\* Lines 109-112: "if not text: return []", "chunks = []", "start = 0".
chunk_text_call(text, chunk_size, chunk_overlap) ==
    /\ chunker.pc \in {"idle", "returned"}
    /\ chunker' = [pc |-> IF text = <<>> THEN "returned" ELSE "loop",
                   text |-> text, chunk_size |-> chunk_size,
                   chunk_overlap |-> chunk_overlap, start |-> 0,
                   chunks |-> <<>>]

\* Lines 113-117: one iteration of the while loop.
chunk_text_iter ==
    /\ chunker.pc = "loop"
    /\ chunker.start < Len(chunker.text)
    /\ Len(chunker.chunks) < MaxIterations
    /\ LET end == chunker.start + chunker.chunk_size IN
       chunker' = [chunker EXCEPT
          !.chunks = Append(@, PySlice(chunker.text, chunker.start, end)),
          !.start = NextStart(@, chunker.chunk_size, chunker.chunk_overlap)]

\* Lines 113, 118: the loop condition fails, "return chunks".
chunk_text_return ==
    /\ chunker.pc = "loop"
    /\ ~(chunker.start < Len(chunker.text))
    /\ chunker' = [chunker EXCEPT !.pc = "returned"]

\* vectors_to_upsert: the ordinals of the chunks for which get_embedding
\* returned a vector (it returns None when the model call raises), in order.
VectorsToUpsert(text_chunks, embedded) ==
    SelectSeq([i \in 1..Len(text_chunks) |-> i - 1], LAMBDA o : o \in embedded)

\* The slices vectors_to_upsert[i:i+100] for i in range(0, len, 100).
Batches(vs) ==
    [b \in 1..((Len(vs) + BatchSize - 1) \div BatchSize) |->
        SubSeq(vs, (b - 1) * BatchSize + 1,
               IF b * BatchSize < Len(vs) THEN b * BatchSize ELSE Len(vs))]

\* index.upsert(vectors=batch) for every ordinal in ords.
Upsert(idx, f, u, ords) ==
    [v \in VectorIds |->
        IF v[1] = f /\ v[2] \in ords
        THEN [original_file_id |-> f, user_id |-> u]
        ELSE idx[v]]

\* The external calls of one run that may raise.  "upsert" is index.upsert
\* raising on the first batch.
PdfFailures == {"none", "head", "download", "upsert", "status_write"}

\* The exception that ends the run in the except block ("none": the run
\* reaches its return statement).
PdfError(keyUser, fileid, text, failAt, embedded) ==
    LET text_chunks == chunk_text(text.length, ChunkSize, ChunkOverlap)
        vectors_to_upsert == VectorsToUpsert(text_chunks, embedded)
    IN
    IF keyUser = None THEN "no_user_in_key"
    ELSE IF failAt = "head" THEN "service"
    ELSE IF fileid = None THEN "no_fileid"
    ELSE IF failAt = "download" THEN "service"
    ELSE IF text.length = 0 THEN "no_text"
    ELSE IF ~validate_resume_content(text).is_valid THEN "not_a_resume"
    ELSE IF failAt = "upsert" /\ vectors_to_upsert # <<>> THEN "service"
    ELSE IF failAt = "status_write" THEN "service"
    ELSE "none"

\* One S3 "object created" event.  keyUser is the user id parsed from the
\* key prefix (None: the key does not start with "user-"), fileid the
\* 'fileid' object metadata (None: not set), text what PyMuPDF extracts.
\* failAt is the call that raises, embedded the ordinals of the chunks for
\* which get_embedding returned a vector, errWriteFails whether the
\* update_item of the except block raises.

\* The index after the run.
VectorsAfterPdf(keyUser, fileid, text, failAt, embedded) ==
    LET error == PdfError(keyUser, fileid, text, failAt, embedded)
        text_chunks == chunk_text(text.length, ChunkSize, ChunkOverlap)
        batches == Batches(VectorsToUpsert(text_chunks, embedded))
        sent == IF failAt = "upsert" THEN {}
                ELSE UNION {{batches[b][i] : i \in 1..Len(batches[b])} :
                               b \in DOMAIN batches}
    IN
    IF error = "none" \/ (error = "service" /\ failAt = "status_write")
    THEN Upsert(vectors, fileid, keyUser, sent)
    ELSE vectors

\* The ResumeFile table after the run.
SummariesAfterPdf(keyUser, fileid, text, failAt, embedded, errWriteFails) ==
    LET error == PdfError(keyUser, fileid, text, failAt, embedded)
        \* job_id is not yet assigned when the exception is raised
        job_id_on_error == IF keyUser = None \/ failAt = "head" THEN None
                           ELSE fileid
        is_validation_error == error = "not_a_resume"
        user_message ==
            IF is_validation_error THEN validate_resume_content(text).reason
            ELSE IF error = "no_text"
            THEN "No text could be extracted from the PDF."
            ELSE "service error"
    IN
    IF error = "none" THEN SetFileReady(summaries, fileid)
    ELSE IF job_id_on_error = None \/ errWriteFails THEN summaries
    ELSE SetFileFailed(summaries, fileid, user_message,
                       IF is_validation_error THEN "VALIDATION_ERROR"
                       ELSE "PROCESSING_ERROR")

\* The handler's return value goes to the S3 notification and is not
\* recorded.
processPdf(keyUser, fileid, text, failAt, embedded, errWriteFails) ==
    /\ vectors' = VectorsAfterPdf(keyUser, fileid, text, failAt, embedded)
    /\ summaries' = SummariesAfterPdf(keyUser, fileid, text, failAt, embedded,
                                      errWriteFails)
    /\ UNCHANGED <<profiles, jobs, dispatched, deliveries, runs, purchases,
                   resp>>

\* ------------------------------------------------ updateUserSubscription
\* secret: WEBHOOK_SECRET as loaded at cold start (None: loading failed);
\* hdrs: the three webhook headers are present; sig: wh.verify accepts them;
\* kind: shape of the request body.
WebhookBodies == {"bad_json", "no_user", "no_fields", "ok"}

PurchaseRecord(c) == [credits |-> c]

AddCredits(current, c) == current + c

\* Lines 43-88: the request passes the signature check, or there is none.
Verified(secret, hdrs, sig) == secret = None \/ (hdrs /\ sig)

\* The status code of the response.
WebhookStatus(secret, hdrs, sig, kind, getFails, putFails) ==
    IF ~Verified(secret, hdrs, sig) THEN 401
    ELSE IF kind # "ok" THEN 400
    ELSE IF getFails \/ putFails THEN 500
    ELSE 200

\* Lines 131-172: the item built for a purchase of c credits by u from the
\* item that get_item returned (read).
PurchaseItemFrom(read, u, c) ==
    LET existing == IF read = NoItem THEN [userId |-> u] ELSE read
        current_credits == Get(existing, "creditsRemaining", DefaultCredits)
        total_purchased == Get(existing, "totalCreditsPurchased", 0)
        purchase_history == Get(existing, "purchaseHistory", <<>>)
    IN
    Put(Put(Put(existing,
        "creditsRemaining", AddCredits(current_credits, c)),
        "totalCreditsPurchased", total_purchased + c),
        "purchaseHistory", Append(purchase_history, PurchaseRecord(c)))

\* Lines 128-172: the item put for a purchase of c credits by u.
PurchaseItem(u, c) == PurchaseItemFrom(profiles[u], u, c)

\* The profile table after the request is handled.
ProfilesAfterWebhook(secret, hdrs, sig, kind, u, c, getFails, putFails) ==
    IF WebhookStatus(secret, hdrs, sig, kind, getFails, putFails) = 200
    THEN [profiles EXCEPT ![u] = PurchaseItem(u, c)]
    ELSE profiles

updateUserSubscription(secret, hdrs, sig, kind, u, c, getFails, putFails) ==
    LET op == "updateUserSubscription"
        status == WebhookStatus(secret, hdrs, sig, kind, getFails, putFails)
    IN
    /\ status = 200 => purchases < MaxPurchases
    /\ profiles' = ProfilesAfterWebhook(secret, hdrs, sig, kind, u, c,
                                        getFails, putFails)
    /\ purchases' = IF status = 200 THEN purchases + 1 ELSE purchases
    /\ resp' =
          IF status = 401
          THEN Response(op, None, 401, 0,
                        [error |-> "Webhook verification failed"])
          ELSE IF status = 400
          THEN Response(op, None, 400, 0, [error |-> kind])
          ELSE IF status = 500
          THEN Response(op, u, 500, 0, [error |-> "Internal server error"])
          ELSE Response(op, u, 200, 0,
                        [error |-> Absent, profile |-> PurchaseItem(u, c)])
    /\ UNCHANGED <<summaries, vectors, jobs, dispatched, deliveries, runs>>

\* --------------------------------------------------------- getUserProfile
\* u is queryStringParameters.userId (None: absent).  The handler does not
\* look at the Authorization header.
getUserProfile(u, getFails) ==
    LET op == "getUserProfile" IN
    /\ resp' =
          IF u = None
          THEN Response(op, None, 400, 0,
                        [error |-> "Missing userId parameter"])
          ELSE IF getFails
          THEN Response(op, u, 500, 0, [error |-> "Internal server error"])
          ELSE Response(op, u, 200, 0,
                        [error |-> Absent,
                         hasProfile |-> profiles[u] # NoItem,
                         profile |-> profiles[u]])
    /\ UNCHANGED <<summaries, vectors, profiles, jobs, dispatched,
                   deliveries, runs, purchases>>

\* -------------------------------------------------------- saveUserProfile
\* u is body.userId; valid: name, email and URLs pass validation.
\* Lines 116-154: the item built for u from the item that get_item returned
\* (existing); when get_item raised, nothing is copied.
SaveItemFrom(existing, u, getFails) ==
    LET preserved == {"creditsRemaining", "totalCreditsPurchased"} IN
    IF getFails \/ existing = NoItem THEN [userId |-> u]
    ELSE [k \in {"userId"} \cup (preserved \cap DOMAIN existing) |->
            IF k = "userId" THEN u ELSE existing[k]]

saveUserProfile(u, valid, getFails, putFails) ==
    LET op == "saveUserProfile"
        profile_item == SaveItemFrom(profiles[u], u, getFails)
    IN
    /\ IF ~valid
       THEN /\ resp' = Response(op, None, 400, 0,
                                [error |-> "Missing required fields"])
            /\ UNCHANGED profiles
       ELSE IF putFails
       THEN /\ resp' = Response(op, u, 500, 0,
                                [error |-> "Internal server error"])
            /\ UNCHANGED profiles
       ELSE /\ profiles' = [profiles EXCEPT ![u] = profile_item]
            /\ resp' = Response(op, u, 200, 0,
                                [error |-> Absent, profile |-> profile_item])
    /\ UNCHANGED <<summaries, vectors, jobs, dispatched, deliveries, runs,
                   purchases>>

\* ------------------------------------------- concurrent profile requests
\* The two handlers above read the item and put a whole item built from it;
\* Lambda runs requests concurrently, so the reads and writes of different
\* requests interleave.  A request in progress holds the item it read.
MaxRequests == 3

\* updateUserSubscription, lines 129-143: table.get_item for a verified
\* purchase of c credits by u.
WebhookRead(u, c) ==
    /\ Len(inflight) < MaxRequests
    /\ inflight' = Append(inflight,
          [op |-> "updateUserSubscription", u |-> u, c |-> c,
           existing |-> profiles[u], getFails |-> FALSE, pc |-> "read"])
    /\ UNCHANGED <<profiles, purchases>>

\* updateUserSubscription, lines 146-198: table.put_item and the 200.
WebhookWrite(r) ==
    /\ inflight[r].op = "updateUserSubscription"
    /\ inflight[r].pc = "read"
    /\ profiles' = [profiles EXCEPT ![inflight[r].u] =
          PurchaseItemFrom(inflight[r].existing, inflight[r].u, inflight[r].c)]
    /\ purchases' = purchases + 1
    /\ inflight' = [inflight EXCEPT ![r].pc = "done"]

\* saveUserProfile, lines 124-154: table.get_item for a valid body of u;
\* getFails: it raises, which the handler swallows.
SaveRead(u, getFails) ==
    /\ Len(inflight) < MaxRequests
    /\ inflight' = Append(inflight,
          [op |-> "saveUserProfile", u |-> u, c |-> 0,
           existing |-> profiles[u], getFails |-> getFails, pc |-> "read"])
    /\ UNCHANGED <<profiles, purchases>>

\* saveUserProfile, lines 156-190: table.put_item and the 200.
SaveWrite(r) ==
    /\ inflight[r].op = "saveUserProfile"
    /\ inflight[r].pc = "read"
    /\ profiles' = [profiles EXCEPT ![inflight[r].u] =
          SaveItemFrom(inflight[r].existing, inflight[r].u,
                       inflight[r].getFails)]
    /\ inflight' = [inflight EXCEPT ![r].pc = "done"]
    /\ UNCHANGED purchases

\* ------------------------------------------------------- startGeneration
JobItem(j, u, f) ==
    [jobId |-> j, userId |-> u, fileId |-> f, status |-> "PROCESSING"]

\* The authorization check (lines 46-66): the response it returns, or
\* "continue".  A raising lookup is caught and the handler continues.
OwnershipCheck(u, f, lookupRaises) ==
    IF lookupRaises THEN "continue"
    ELSE IF summaries[f] = NoItem THEN "not_found"
    ELSE IF Has(summaries[f], "userId") /\ summaries[f].userId # u
    THEN "forbidden"
    ELSE "continue"

\* The credit check (lines 68-102): "deny" or "allow".
CreditCheck_StrictlyNegative(u, lookupRaises) ==
    IF lookupRaises THEN "allow"
    ELSE IF profiles[u] = NoItem THEN "allow"
    ELSE IF Get(profiles[u], "subscriptionTier", "free") = "unlimited"
    THEN "allow"
    ELSE IF Get(profiles[u], "creditsRemaining", DefaultCredits) < 0
    THEN "deny"
    ELSE "allow"

CreditCheck_NoProfileDenied(u, lookupRaises) ==
    IF lookupRaises THEN "allow"
    ELSE IF profiles[u] = NoItem THEN "deny"
    ELSE IF Get(profiles[u], "subscriptionTier", "free") = "unlimited"
    THEN "allow"
    ELSE IF Get(profiles[u], "creditsRemaining", DefaultCredits) <= 0
    THEN "deny"
    ELSE "allow"

CreditCheck(u, lookupRaises) ==
    IF lookupRaises THEN "allow"
    ELSE IF profiles[u] = NoItem THEN "allow"
    ELSE IF Get(profiles[u], "subscriptionTier", "free") = "unlimited"
    THEN "allow"
    ELSE IF Get(profiles[u], "creditsRemaining", DefaultCredits) <= 0
    THEN "deny"
    ELSE "allow"

\* uuid4 job id: an id no record uses yet.
FreshJobs == {j \in JobIds : jobs[j] = NoItem}

StartBodies == {"bad_json", "missing", "ok"}

\* The lines the handler prints when it swallows an exception.
StartLog(ownRaises, profRaises) ==
    (IF ownRaises THEN {"Error checking file ownership"} ELSE {})
    \cup (IF profRaises THEN {"Error checking credits"} ELSE {})

startGeneration(u, kind, f, ownRaises, profRaises, putFails, invokeFails) ==
    LET op == "startGeneration"
        own == OwnershipCheck(u, f, ownRaises)
        gate == CreditCheck(u, profRaises)
        job_id == CHOOSE j \in FreshJobs : \A k \in FreshJobs : j <= k
        event == [jobId |-> job_id, userId |-> u, fileId |-> f]
        Logged(r, lines) == Put(r, "log", lines)
    IN
    /\ IF u = None
       THEN /\ resp' = Logged(create_unauthorized_response(op), {})
            /\ UNCHANGED <<jobs, dispatched>>
       ELSE IF kind = "bad_json"
       THEN /\ resp' = Logged(Response(op, u, 500, 0,
                         [error |-> "Failed to start generation: json"]), {})
            /\ UNCHANGED <<jobs, dispatched>>
       ELSE IF kind = "missing"
       THEN /\ resp' = Logged(Response(op, u, 400, 0,
                   [error |-> "fileId and jobDescription are required"]), {})
            /\ UNCHANGED <<jobs, dispatched>>
       ELSE IF own = "not_found"
       THEN /\ resp' = Logged(Response(op, u, 404, 0,
                                       [error |-> "File not found"]), {})
            /\ UNCHANGED <<jobs, dispatched>>
       ELSE IF own = "forbidden"
       THEN /\ resp' = Logged(create_forbidden_response(op, u,
                   "You don't have permission to access this file"), {})
            /\ UNCHANGED <<jobs, dispatched>>
       ELSE IF gate = "deny"
       THEN /\ resp' = Logged(Response(op, u, 403, 0,
                                [error |-> "Insufficient credits"]),
                              StartLog(ownRaises, FALSE))
            /\ UNCHANGED <<jobs, dispatched>>
       ELSE IF putFails
       THEN /\ resp' = Logged(Response(op, u, 500, 0,
                         [error |-> "Failed to start generation: put_item"]),
                              StartLog(ownRaises, profRaises))
            /\ UNCHANGED <<jobs, dispatched>>
       ELSE /\ FreshJobs # {}
            /\ jobs' = [jobs EXCEPT ![job_id] = JobItem(job_id, u, f)]
            /\ IF invokeFails
               THEN /\ resp' = Logged(Response(op, u, 500, job_id,
                           [error |-> "Failed to start generation: invoke"]),
                                      StartLog(ownRaises, profRaises))
                    /\ UNCHANGED dispatched
               ELSE /\ dispatched' = [dispatched EXCEPT
                                        ![job_id] = Append(@, event)]
                    /\ resp' = Logged(Response(op, u, 200, job_id,
                                [error |-> Absent, jobId |-> job_id,
                                 status |-> "PROCESSING"]),
                                      StartLog(ownRaises, profRaises))
    /\ UNCHANGED <<summaries, vectors, profiles, deliveries, runs, purchases>>

\* ------------------------------------------- validate_structured_output
\* A parsed JSON value carries its Python type: dict (f: the record of its
\* keys), list (items), str (s), int (n), bool (b), None.
JNull == [t |-> "null"]
JBool(b) == [t |-> "bool", b |-> b]
JInt(n) == [t |-> "int", n |-> n]
JStr(s) == [t |-> "str", s |-> s]
JList(items) == [t |-> "list", items |-> items]
JDict(f) == [t |-> "dict", f |-> f]

\* The strings of parsed values are "" and "x": a string has at most one
\* character, a field name has more.
RECURSIVE SeqOfSet(_)
SeqOfSet(S) ==
    IF S = {} THEN <<>>
    ELSE LET x == CHOOSE y \in S : TRUE IN <<x>> \o SeqOfSet(S \ {x})

RECURSIVE Flatten(_)
Flatten(seqs) ==
    IF seqs = <<>> THEN <<>> ELSE Head(seqs) \o Flatten(Tail(seqs))

\* iter(v) does not raise TypeError
Iterable(v) == v.t \in {"dict", "list", "str"}

\* key in v, for an iterable v and a field name key
In(key, v) ==
    IF v.t = "dict" THEN key \in DOMAIN v.f
    ELSE IF v.t = "list"
    THEN \E i \in 1..Len(v.items) : v.items[i] = JStr(key)
    ELSE FALSE

\* the values of "for idx, x in enumerate(v)", for an iterable v
Iter(v) ==
    IF v.t = "list" THEN v.items
    ELSE IF v.t = "dict"
    THEN LET keys == SeqOfSet(DOMAIN v.f) IN
         [i \in 1..Len(keys) |-> JStr(keys[i])]
    ELSE IF v.s = "" THEN <<>> ELSE <<v>>

\* bool(v)
Truthy(v) ==
    IF v.t = "null" THEN FALSE
    ELSE IF v.t = "bool" THEN v.b
    ELSE IF v.t = "int" THEN v.n # 0
    ELSE IF v.t = "str" THEN v.s # ""
    ELSE IF v.t = "list" THEN v.items # <<>>
    ELSE DOMAIN v.f # {}

\* isinstance(v, (int, float)): bool is a subclass of int
IsNumber(v) == v.t \in {"int", "bool"}

\* score < 0 or score > 100, for a number: True is 1, False is 0
OutOfRange(v) ==
    IF v.t = "bool" THEN FALSE ELSE v.n < 0 \/ v.n > 100

\* One entry of the errors list: the message, with the index and the field
\* name it was formatted with (-1 and "": none).
Err(msg, idx, field) == [msg |-> msg, idx |-> idx, field |-> field]

Raised(exception, errors) == [raised |-> exception, errors |-> errors]

\* "X {idx} missing '{field}' field" for every field of fields not in entry
MissingFields(msg, idx, fields, entry) ==
    Flatten([k \in 1..Len(fields) |->
        IF In(fields[k], entry) THEN <<>>
        ELSE <<Err(msg, idx, fields[k])>>])

\* The optional sections of the resume (lines 128-197): key, the label of
\* their messages, the fields of an entry, and whether one message covers
\* all fields of an entry.
OptionalSections ==
    << [key |-> "projects", label |-> "Project",
        fields |-> <<"name", "description">>, joint |-> TRUE],
       [key |-> "publications", label |-> "Publication",
        fields |-> <<"title", "authors", "venue", "date">>, joint |-> FALSE],
       [key |-> "certifications", label |-> "Certification",
        fields |-> <<"name", "issuer">>, joint |-> FALSE],
       [key |-> "awards", label |-> "Award",
        fields |-> <<"title", "issuer", "date">>, joint |-> FALSE],
       [key |-> "volunteerExperience", label |-> "Volunteer",
        fields |-> <<"role", "organization", "startDate", "endDate",
                     "description">>, joint |-> FALSE],
       [key |-> "professionalMemberships", label |-> "Membership",
        fields |-> <<"organization">>, joint |-> FALSE],
       [key |-> "languages", label |-> "Language",
        fields |-> <<"language", "proficiency">>, joint |-> TRUE] >>

\* Lines 80-91: a TypeError is raised / the errors appended.
ContactRaises(contact) ==
    \/ ~Iterable(contact)
    \/ /\ contact.t # "dict"
       /\ \E k \in {"name", "email", "phone", "linkedin", "github",
                    "location"} : In(k, contact)

ContactErrors(contact) ==
    LET required == <<"name", "email">>
        optional == <<"phone", "linkedin", "github", "location">>
    IN
    Flatten([k \in 1..2 |->
        IF ~In(required[k], contact) \/ ~Truthy(contact.f[required[k]])
        THEN <<Err("Contact missing required field", -1, required[k])>>
        ELSE <<>>])
    \o
    Flatten([k \in 1..4 |->
        IF /\ In(optional[k], contact)
           /\ contact.f[optional[k]].t \notin {"null", "str"}
        THEN <<Err("Contact field must be a string if provided", -1,
                   optional[k])>>
        ELSE <<>>])

\* Lines 94-99
ArrayErrors(resume) ==
    Flatten([k \in 1..3 |->
        LET key == <<"skills", "experience", "education">>[k] IN
        IF resume.f[key].t # "list"
        THEN <<Err("must be an array", -1, key)>> ELSE <<>>])

\* Lines 102-108
SkillsRaises(skills) == ~Iterable(skills)

SkillsErrors(skills) ==
    LET cats == Iter(skills) IN
    Flatten([k \in 1..Len(cats) |->
        LET skill_cat == cats[k]
            idx == k - 1
        IN
        IF skill_cat.t # "dict"
        THEN <<Err("Skill category must be an object", idx, "")>>
        ELSE IF ~In("category", skill_cat) \/ ~In("skills", skill_cat)
        THEN <<Err("Skill category missing 'category' or 'skills' field",
                   idx, "")>>
        ELSE IF skill_cat.f.skills.t # "list"
        THEN <<Err("Skill category 'skills' must be an array", idx, "")>>
        ELSE <<>>])

\* Lines 111-117
ExperienceRaises(experience) ==
    \/ ~Iterable(experience)
    \/ \E k \in 1..Len(Iter(experience)) :
          LET exp == Iter(experience)[k] IN
          \/ ~Iterable(exp)
          \/ exp.t # "dict" /\ In("achievements", exp)

ExperienceErrors(experience) ==
    LET entries == Iter(experience) IN
    Flatten([k \in 1..Len(entries) |->
        LET exp == entries[k]
            idx == k - 1
        IN
        MissingFields("Experience missing field", idx,
            <<"title", "company", "startDate", "endDate", "achievements">>,
            exp)
        \o (IF In("achievements", exp) /\ exp.f.achievements.t # "list"
            THEN <<Err("Experience 'achievements' must be an array", idx,
                       "")>>
            ELSE <<>>)])

\* Lines 120-124
EducationRaises(education) ==
    \/ ~Iterable(education)
    \/ \E k \in 1..Len(Iter(education)) : ~Iterable(Iter(education)[k])

EducationErrors(education) ==
    LET entries == Iter(education) IN
    Flatten([k \in 1..Len(entries) |->
        MissingFields("Education missing field", k - 1,
            <<"degree", "institution", "graduationYear">>, entries[k])])

\* Lines 128-197, for one optional section
SectionRaises(resume, sec) ==
    /\ In(sec.key, resume)
    /\ resume.f[sec.key].t = "list"
    /\ \E k \in 1..Len(resume.f[sec.key].items) :
          ~Iterable(resume.f[sec.key].items[k])

SectionErrors(resume, sec) ==
    IF ~In(sec.key, resume) THEN <<>>
    ELSE IF resume.f[sec.key].t # "list"
    THEN <<Err("must be an array", -1, sec.key)>>
    ELSE LET entries == resume.f[sec.key].items IN
         Flatten([k \in 1..Len(entries) |->
            LET missing == MissingFields(sec.label, k - 1, sec.fields,
                                         entries[k])
            IN
            IF sec.joint
            THEN IF missing = <<>> THEN <<>>
                 ELSE <<Err(sec.label, k - 1, "any")>>
            ELSE missing])

\* Lines 200-208
CoverLetterErrors(cover_letter) ==
    IF cover_letter.t # "dict"
    THEN <<Err("Cover letter must be an object", -1, "")>>
    ELSE MissingFields("Cover letter missing field", -1,
                       <<"companyName", "position", "paragraphs">>,
                       cover_letter)
         \o (IF /\ In("paragraphs", cover_letter)
                /\ cover_letter.f.paragraphs.t # "list"
             THEN <<Err("Cover letter 'paragraphs' must be an array", -1,
                        "")>>
             ELSE <<>>)

\* Lines 211-232
ScoreFields == <<"overallScore", "skillsMatch", "experienceMatch",
                 "educationMatch">>

MatchScoreRaises(data) ==
    /\ In("matchScore", data)
    /\ LET match_score == data.f.matchScore IN
       \/ ~Iterable(match_score)
       \/ /\ match_score.t # "dict"
          /\ \E k \in {"overallScore", "skillsMatch", "experienceMatch",
                       "educationMatch", "strengths", "gaps"} :
                In(k, match_score)

MatchScoreErrors(data) ==
    IF ~In("matchScore", data)
    THEN <<Err("Missing field", -1, "matchScore")>>
    ELSE LET match_score == data.f.matchScore IN
         MissingFields("Match score missing field", -1,
             ScoreFields \o <<"summary", "strengths", "gaps">>, match_score)
         \o Flatten([k \in 1..4 |->
               IF /\ In(ScoreFields[k], match_score)
                  /\ LET score == match_score.f[ScoreFields[k]] IN
                     ~IsNumber(score) \/ OutOfRange(score)
               THEN <<Err("Match score must be a number between 0-100", -1,
                          ScoreFields[k])>>
               ELSE <<>>])
         \o Flatten([k \in 1..2 |->
               LET key == <<"strengths", "gaps">>[k] IN
               IF In(key, match_score) /\ match_score.f[key].t # "list"
               THEN <<Err("Match score field must be an array", -1, key)>>
               ELSE <<>>])

\* What the call does: returns True (raised "none"), raises the ValueError
\* that joins the errors list, or raises a TypeError out of an expression.
validate_structured_output(data) ==
    IF data.t # "dict"
    THEN Raised("ValueError", <<Err("Output must be a JSON object", -1, "")>>)
    ELSE
    LET top == MissingFields("Missing field", -1, <<"resume", "coverLetter">>,
                             data)
    IN
    IF top # <<>> THEN Raised("ValueError", top)
    ELSE
    LET resume == data.f.resume
        cover_letter == data.f.coverLetter
    IN
    IF ~Iterable(resume) THEN Raised("TypeError", <<>>)
    ELSE
    LET sections == MissingFields("Resume missing field", -1,
            <<"contact", "summary", "skills", "experience", "education">>,
            resume)
    IN
    IF sections # <<>> THEN Raised("ValueError", sections)
    ELSE IF resume.t # "dict" THEN Raised("TypeError", <<>>)
    ELSE
    LET raises ==
            \/ ContactRaises(resume.f.contact)
            \/ SkillsRaises(resume.f.skills)
            \/ ExperienceRaises(resume.f.experience)
            \/ EducationRaises(resume.f.education)
            \/ \E k \in 1..Len(OptionalSections) :
                  SectionRaises(resume, OptionalSections[k])
            \/ MatchScoreRaises(data)
        errors ==
            ContactErrors(resume.f.contact)
            \o ArrayErrors(resume)
            \o SkillsErrors(resume.f.skills)
            \o ExperienceErrors(resume.f.experience)
            \o EducationErrors(resume.f.education)
            \o Flatten([k \in 1..Len(OptionalSections) |->
                  SectionErrors(resume, OptionalSections[k])])
            \o CoverLetterErrors(cover_letter)
            \o MatchScoreErrors(data)
    IN
    IF raises THEN Raised("TypeError", <<>>)
    ELSE IF errors # <<>> THEN Raised("ValueError", errors)
    ELSE Raised("none", <<>>)

\* ------------------------------------------------ outputs of the model
\* A dict from a sequence of <<key, value>> pairs.
Obj(pairs) ==
    JDict([k \in {pairs[i][1] : i \in DOMAIN pairs} |->
              pairs[CHOOSE i \in DOMAIN pairs : pairs[i][1] = k][2]])

\* <<key, value>> unless the variant leaves the key out
Field(key, variant, value) ==
    IF variant = "missing" THEN <<>> ELSE << <<key, value>> >>

\* A shape says, for every part, how it differs: at most MaxDeviations
\* parts are not "ok".
Shapes ==
    UNION { {[s \in Slots |-> IF s \in D THEN c[s] ELSE "ok"] :
                c \in {x \in [D -> UNION {Variants[s] : s \in Slots}] :
                         \A s \in D : x[s] \in Variants[s]}} :
            D \in {E \in SUBSET Slots : Cardinality(E) <= MaxDeviations} }

\* A container of the resume in variant v, well-formed being JList(<<entry>>)
Container(v, entry, incomplete) ==
    IF v = "null" THEN JNull
    ELSE IF v = "number" THEN JInt(7)
    ELSE IF v = "string" THEN JStr("x")
    ELSE IF v = "object" THEN Obj(<< <<"x", JList(<<entry>>)>> >>)
    ELSE IF v = "entry_null" THEN JList(<<entry, JNull>>)
    ELSE IF v = "entry_string" THEN JList(<<entry, JStr("x")>>)
    ELSE IF v = "entry_incomplete" THEN JList(<<incomplete>>)
    ELSE JList(<<entry>>)

Score(v) ==
    IF v = "below" THEN JInt(-1)
    ELSE IF v = "above" THEN JInt(101)
    ELSE IF v = "bool" THEN JBool(TRUE)
    ELSE IF v = "string" THEN JStr("x")
    ELSE IF v = "null" THEN JNull
    ELSE JInt(80)

Contact(v) ==
    IF v = "null" THEN JNull
    ELSE IF v = "array" THEN JList(<<JStr("x")>>)
    ELSE Obj(Field("name", IF v = "no_name" THEN "missing" ELSE "ok",
                   JStr("x"))
             \o Field("email", "ok",
                      IF v = "empty_email" THEN JStr("") ELSE JStr("x")))

ResumeOf(sh) ==
    IF sh.resume = "null" THEN JNull
    ELSE IF sh.resume = "string" THEN JStr("x")
    ELSE IF sh.resume = "array" THEN JList(<<JStr("x")>>)
    ELSE Obj(
        Field("contact", sh.contact, Contact(sh.contact))
        \o Field("summary", sh.summary, JStr("x"))
        \o Field("skills", sh.skills,
              Container(sh.skills,
                  Obj(<< <<"category", JStr("x")>>,
                         <<"skills", JList(<<JStr("x")>>)>> >>),
                  Obj(<< <<"category", JStr("x")>> >>)))
        \o Field("experience", sh.experience,
              Container(sh.experience,
                  Obj(<< <<"title", JStr("x")>>, <<"company", JStr("x")>>,
                         <<"startDate", JStr("x")>>, <<"endDate", JStr("x")>>,
                         <<"achievements", JList(<<JStr("x")>>)>> >>),
                  Obj(<< <<"company", JStr("x")>>,
                         <<"startDate", JStr("x")>>, <<"endDate", JStr("x")>>,
                         <<"achievements", JList(<<JStr("x")>>)>> >>)))
        \o Field("education", sh.education,
              Container(sh.education,
                  Obj(<< <<"degree", JStr("x")>>,
                         <<"institution", JStr("x")>>,
                         <<"graduationYear", JStr("x")>> >>),
                  Obj(<< <<"institution", JStr("x")>>,
                         <<"graduationYear", JStr("x")>> >>)))
        \o Field("projects",
              IF sh.projects = "ok" THEN "missing" ELSE sh.projects,
              Container(IF sh.projects = "array" THEN "ok" ELSE sh.projects,
                  Obj(<< <<"name", JStr("x")>>,
                         <<"description", JStr("x")>> >>),
                  Obj(<< <<"description", JStr("x")>> >>))))

MatchScoreOf(sh) ==
    IF sh.matchScore = "null" THEN JNull
    ELSE Obj(
        Flatten([k \in 1..4 |->
           Field(ScoreFields[k], sh[ScoreFields[k]],
                 Score(sh[ScoreFields[k]]))])
        \o << <<"summary", JStr("x")>> >>
        \o Field("strengths", sh.strengths,
                 IF sh.strengths = "string" THEN JStr("x")
                 ELSE JList(<<JStr("x")>>))
        \o << <<"gaps", JList(<<>>)>> >>)

\* json.loads(cleaned_response) for the response sh
OutputOf(sh) ==
    Obj(Field("resume", sh.resume, ResumeOf(sh))
        \o Field("coverLetter", sh.coverLetter,
              IF sh.coverLetter = "null" THEN JNull
              ELSE Obj(<< <<"companyName", JStr("x")>>,
                          <<"position", JStr("x")>>,
                          <<"paragraphs", JList(<<JStr("x")>>)>> >>))
        \o Field("matchScore", sh.matchScore, MatchScoreOf(sh))
        \o << <<"generatedAt", JStr("x")>> >>)

OkShape == [s \in Slots |-> "ok"]

\* The responses of the generation life cycle: a well-formed one and one
\* without matchScore.
LifecycleShapes == {OkShape, [OkShape EXCEPT !.matchScore = "missing"]}

\* ----------------------------------------------------- processGeneration
\* Pinecone metadata filter of index.query (lines 346-351).
QueryFilter(file_id, user_id) ==
    [original_file_id |-> file_id, user_id |-> user_id]

FilterMatches_FileOnly(meta, flt) ==
    meta.original_file_id = flt.original_file_id

FilterMatches(meta, flt) ==
    /\ meta.original_file_id = flt.original_file_id
    /\ meta.user_id = flt.user_id

\* index.query with top_k=5: at most MaxChunks vectors carry one fileId, so
\* every vector that passes the filter is among the top 5.
Query(idx, flt) ==
    {[id |-> v, original_file_id |-> idx[v].original_file_id,
      user_id |-> idx[v].user_id] :
        v \in {w \in VectorIds : idx[w] # NoVec /\ FilterMatches(idx[w], flt)}}

QueryOutcomes == {"hit", "empty", "raise"}

GenFailures == {"none", "missing_fields", "file_lookup", "embed", "llm",
                "bad_json", "write"}

ErrorMessage(kind) ==
    IF kind = "json" THEN "Failed to parse JSON from LLM"
    ELSE IF kind = "value" THEN "Validation error"
    ELSE IF kind = "no_context"
    THEN "Validation error: Could not find relevant sections in master resume"
    ELSE "Unexpected error"

\* json.dumps(structured_output)
json_dumps(data) == ToString(data)

\* table.update_item(Key={'jobId': job_id}, SET ...) for the two writes.
MarkCompleted(tbl, j, data) ==
    LET old == IF tbl[j] = NoItem THEN [jobId |-> j] ELSE tbl[j] IN
    [tbl EXCEPT ![j] = Put(Put(old, "status", "COMPLETED"),
                           "structuredData", data)]

MarkFailed(tbl, j, msg) ==
    LET old == IF tbl[j] = NoItem THEN [jobId |-> j] ELSE tbl[j] IN
    [tbl EXCEPT ![j] = Put(Put(old, "status", "FAILED"), "errorMessage", msg)]

\* validate_structured_output(json.loads(response)) and
\* json.dumps(json.loads(response)), for every response of the model.
ValidationOf ==
    [sh \in Shapes |-> validate_structured_output(OutputOf(sh))]

StoredOf == [sh \in Shapes |-> json_dumps(OutputOf(sh))]

\* One delivery of the invocation event of job j.  failAt is the external
\* step that raises in this run, q1 and q2 what the two query attempts do,
\* sh the response of the generative model, errWriteFails whether the
\* update_item in the except block raises.

\* What the try block of the run does, up to its return or its exception.
GenRun(j, failAt, q1, q2, sh) ==
    LET event == dispatched[j][1]
        file_id == event.fileId
        file_record == summaries[file_id]
        resolved == failAt \notin {"missing_fields", "file_lookup"}
                    /\ file_record # NoItem
                    /\ Has(file_record, "userId")
        user_id == IF resolved THEN file_record.userId ELSE None
        flt == QueryFilter(file_id, user_id)
        queried == resolved /\ failAt # "embed"
        m1 == IF q1 = "hit" THEN Query(vectors, flt) ELSE {}
        second == m1 = {}
        m2 == IF q2 = "hit" THEN Query(vectors, flt) ELSE {}
        matches == IF m1 # {} THEN m1 ELSE m2
        found == queried /\ ~(second /\ q2 = "raise") /\ matches # {}
        parsed == found /\ failAt \notin {"llm", "bad_json"}
        validation == ValidationOf[sh]
        kind ==
            IF failAt = "missing_fields" THEN "value"
            ELSE IF failAt = "file_lookup" THEN "exception"
            ELSE IF ~resolved THEN "value"
            ELSE IF failAt = "embed" THEN "exception"
            ELSE IF second /\ q2 = "raise" THEN "exception"
            ELSE IF matches = {} THEN "no_context"
            ELSE IF failAt = "llm" THEN "exception"
            ELSE IF failAt = "bad_json" THEN "json"
            ELSE IF validation.raised = "ValueError" THEN "value"
            ELSE IF validation.raised = "TypeError" THEN "exception"
            ELSE IF failAt = "write" THEN "exception"
            ELSE "ok"
    IN
    [kind |-> kind,
     validation |-> IF parsed THEN validation ELSE Raised("not_run", <<>>),
     run |-> [outcome |-> IF kind = "ok" THEN "returned" ELSE "raised",
              owner |-> user_id,
              queries |-> IF ~queried THEN <<>>
                          ELSE IF second THEN <<flt, flt>> ELSE <<flt>>,
              context |-> IF found THEN matches ELSE {},
              llmCalled |-> found]]

\* The invocation is asynchronous: what it returns or raises reaches no
\* caller.
\* The jobs table after the run r of job j: the update_item of the try block
\* (lines 696-711) or of the except block that caught the exception (lines
\* 716-777), whose own failure is only printed.
JobsAfterRun(j, r, sh, errWriteFails) ==
    IF r.kind = "ok" THEN MarkCompleted(jobs, j, StoredOf[sh])
    ELSE IF errWriteFails THEN jobs
    ELSE MarkFailed(jobs, j, ErrorMessage(r.kind))

processGeneration(j, failAt, q1, q2, sh, errWriteFails) ==
    /\ dispatched[j] # <<>>
    /\ deliveries[j] < MaxDeliveries
    /\ LET r == GenRun(j, failAt, q1, q2, sh) IN
       /\ jobs' = JobsAfterRun(j, r, sh, errWriteFails)
       /\ runs' = [runs EXCEPT ![j] = r.run]
    /\ deliveries' = [deliveries EXCEPT ![j] = @ + 1]
    /\ UNCHANGED <<summaries, vectors, profiles, dispatched, purchases, resp>>

\* ---------------------------------------------------- getGenerationStatus
\* The authorization check (lines 71-72).
JobOwnerMismatch_Skipped(item, u) == FALSE

JobOwnerMismatch(item, u) == Has(item, "userId") /\ item.userId # u

\* u: authenticated subject (None: no valid token); j: jobId query
\* parameter (0: missing).
getGenerationStatus(u, j) ==
    LET op == "getGenerationStatus"
        item == jobs[j]
        base == [error |-> Absent, jobId |-> j, status |-> item.status]
        body ==
            IF item.status = "COMPLETED"
            THEN [error |-> Absent, jobId |-> j, status |-> item.status,
                  tailoredResume |-> Get(item, "tailoredResume", ""),
                  coverLetter |-> Get(item, "coverLetter", "")]
            ELSE IF item.status = "FAILED"
            THEN [error |-> Absent, jobId |-> j, status |-> item.status,
                  errorMessage |-> Get(item, "errorMessage", "Unknown error")]
            ELSE base
    IN
    /\ resp' =
         IF u = None THEN create_unauthorized_response(op)
         ELSE IF j = 0
         THEN Response(op, u, 400, 0,
                       [error |-> "jobId query parameter is required"])
         ELSE IF item = NoItem
         THEN Response(op, u, 404, j, [error |-> "Job not found"])
         ELSE IF JobOwnerMismatch(item, u)
         THEN [create_forbidden_response(op, u,
                  "You don't have permission to access this job")
               EXCEPT !.jobId = j]
         ELSE Response(op, u, 200, j, body)
    /\ UNCHANGED <<summaries, vectors, profiles, jobs, dispatched, deliveries,
                   runs, purchases>>

\* ------------------------------------------------------ the list handlers
\* table.scan(FilterExpression=...) called once: DynamoDB evaluates the items
\* in its own order (keys: that order) until the page is full (evaluated: how
\* many items that is) and returns those that pass the filter; the handlers
\* do not follow LastEvaluatedKey.
RECURSIVE ScanItems(_, _, _, _)
ScanItems(tbl, keys, evaluated, i) ==
    IF i > Len(keys) \/ i > evaluated THEN <<>>
    ELSE IF tbl[keys[i]] = NoItem
    THEN ScanItems(tbl, keys, evaluated + 1, i + 1)
    ELSE <<tbl[keys[i]]>> \o ScanItems(tbl, keys, evaluated, i + 1)

\* FilterExpression 'userId = :uid', with 'AND #status = :status' when status
\* is not None.
ScanFilter(item, uid, status) ==
    /\ Get(item, "userId", None) = uid
    /\ status # None => Get(item, "status", None) = status

scan(tbl, keys, evaluated, uid, status) ==
    LET Pass(item) == ScanFilter(item, uid, status) IN
    SelectSeq(ScanItems(tbl, keys, evaluated, 1), Pass)

\* list.sort(key=..., reverse=True): stable, largest key first.  key: the
\* key of every element of the list.
RECURSIVE InsertDesc(_, _, _)
InsertDesc(sorted, x, key) ==
    IF sorted = <<>> THEN <<x>>
    ELSE IF key[Head(sorted)] >= key[x]
    THEN <<Head(sorted)>> \o InsertDesc(Tail(sorted), x, key)
    ELSE <<x>> \o sorted

RECURSIVE SortDesc(_, _)
SortDesc(items, key) ==
    IF items = <<>> THEN <<>>
    ELSE InsertDesc(SortDesc(SubSeq(items, 1, Len(items) - 1), key),
                    items[Len(items)], key)

Elements(items) == {items[i] : i \in DOMAIN items}

\* The order in which a scan meets the items of the two tables.
JobKeys == [i \in 1..MaxJobs |-> i]
FileKeys == SeqOfSet(Files)
FileRank(f) == CHOOSE i \in DOMAIN FileKeys : FileKeys[i] = f

\* listUserGenerations, lines 47-63: the entry built for an item.
Generation(item) ==
    [jobId |-> Get(item, "jobId", None),
     companyName |-> Get(item, "companyName", "Unknown Company"),
     completedAt |-> Get(item, "completedAt", None),
     fileId |-> Get(item, "fileId", None)]

listUserGenerations(u, evaluated, scanFails) ==
    LET op == "listUserGenerations"
        items == scan(jobs, JobKeys, evaluated, u, "COMPLETED")
        found == [i \in DOMAIN items |-> Generation(items[i])]
        generations ==
            SortDesc(found, [g \in Elements(found) |-> g.completedAt])
    IN
    /\ resp' =
          IF u = None THEN create_unauthorized_response(op)
          ELSE IF scanFails
          THEN Response(op, u, 500, 0,
                        [error |-> "Failed to list generations"])
          ELSE Response(op, u, 200, 0,
                        [error |-> Absent, generations |-> generations,
                         count |-> Len(generations)])
    /\ UNCHANGED <<summaries, vectors, profiles, jobs, dispatched,
                   deliveries, runs, purchases>>

\* listUserResumes, lines 37-44: the entry built for an item.
Resume(item) ==
    [fileId |-> Get(item, "fileId", None),
     originalFilename |-> Get(item, "originalFilename", None),
     processingStatus |-> Get(item, "processingStatus", None),
     uploadedAt |-> Get(item, "fileId", None)]

listUserResumes(u, evaluated, scanFails) ==
    LET op == "listUserResumes"
        items == scan(summaries, FileKeys, evaluated, u, None)
        found == [i \in DOMAIN items |-> Resume(items[i])]
        resumes ==
            SortDesc(found, [r \in Elements(found) |-> FileRank(r.fileId)])
    IN
    /\ resp' =
          IF u = None THEN create_unauthorized_response(op)
          ELSE IF scanFails
          THEN Response(op, u, 500, 0, [error |-> "Failed to list resumes"])
          ELSE Response(op, u, 200, 0,
                        [error |-> Absent, resumes |-> resumes,
                         count |-> Len(resumes)])
    /\ UNCHANGED <<summaries, vectors, profiles, jobs, dispatched,
                   deliveries, runs, purchases>>

\* ------------------------------------------------------------------ Next
MaybeUser == Users \cup {None}

\* Inputs that the path taken never reads are fixed, so that one behaviour of
\* the handler is one transition.
Upload ==
    \E u \in MaybeUser, putFails \in BOOLEAN :
       /\ u = None => ~putFails
       /\ getSignedUploadUrl(u, putFails)
       /\ UNCHANGED <<chunker, inflight>>

Ingest(texts) ==
    \E keyUser \in MaybeUser, fileid \in Files \cup {None}, text \in texts,
       failAt \in PdfFailures, embedded \in SUBSET (0..(MaxChunks - 1)),
       errWriteFails \in BOOLEAN :
       LET error == PdfError(keyUser, fileid, text, failAt, embedded)
           reached == IF error \in {"no_user_in_key", "no_fileid"} THEN "none"
                      ELSE IF error \in {"no_text", "not_a_resume"}
                      THEN "none"
                      ELSE failAt
           n == Len(chunk_text(text.length, ChunkSize, ChunkOverlap))
       IN
       /\ failAt = reached
       /\ (error \in {"no_user_in_key", "no_fileid"} \/ failAt = "head")
             => (text = EmptyText /\ ~errWriteFails)
       /\ failAt = "download" => text = EmptyText
       /\ embedded \subseteq
             (IF error \in {"none", "service"}
                 /\ failAt \in {"none", "upsert", "status_write"}
              THEN 0..(n - 1) ELSE {})
       /\ error = "none" => (failAt = "none" /\ ~errWriteFails)
       /\ processPdf(keyUser, fileid, text, failAt, embedded, errWriteFails)
       /\ UNCHANGED <<chunker, inflight>>

Start ==
    \E u \in MaybeUser, kind \in StartBodies, f \in Files,
       ownRaises \in BOOLEAN, profRaises \in BOOLEAN, putFails \in BOOLEAN,
       invokeFails \in BOOLEAN :
       /\ (u = None \/ kind # "ok")
             => (~ownRaises /\ ~profRaises /\ ~putFails /\ ~invokeFails)
       /\ putFails => ~invokeFails
       /\ startGeneration(u, kind, f, ownRaises, profRaises, putFails,
                          invokeFails)
       /\ UNCHANGED <<chunker, inflight>>

Pipeline(shapes) ==
    \E j \in JobIds, failAt \in GenFailures, q1 \in QueryOutcomes,
       q2 \in QueryOutcomes, sh \in shapes, errWriteFails \in BOOLEAN :
       /\ dispatched[j] # <<>>
       /\ deliveries[j] < MaxDeliveries
       /\ failAt \in {"missing_fields", "file_lookup", "embed"}
             => (q1 = "hit" /\ q2 = "hit")
       /\ q1 = "hit" => q2 = "hit"
       /\ LET r == GenRun(j, failAt, q1, q2, sh) IN
          /\ r.validation.raised = "not_run" => sh = OkShape
          /\ failAt = "write" => r.validation.raised = "none"
          /\ r.kind = "ok" => ~errWriteFails
       /\ processGeneration(j, failAt, q1, q2, sh, errWriteFails)
       /\ UNCHANGED <<chunker, inflight>>

Poll ==
    \E u \in MaybeUser, j \in JobIds \cup {0} :
       /\ u = None => j = 0
       /\ getGenerationStatus(u, j)
       /\ UNCHANGED <<chunker, inflight>>

Webhook ==
    \E secret \in {"whsec", None}, headersPresent \in BOOLEAN,
       sigValid \in BOOLEAN, kind \in WebhookBodies, u \in Users,
       c \in CreditValues, getFails \in BOOLEAN, putFails \in BOOLEAN :
       /\ secret = None => ~headersPresent
       /\ ~headersPresent => ~sigValid
       /\ ~Verified(secret, headersPresent, sigValid) => kind = "ok"
       /\ (kind # "ok" \/ ~Verified(secret, headersPresent, sigValid))
             => (~getFails /\ ~putFails)
       /\ getFails => ~putFails
       /\ updateUserSubscription(secret, headersPresent, sigValid, kind, u, c,
                                 getFails, putFails)
       /\ UNCHANGED <<chunker, inflight>>

SaveProfile ==
    \E u \in Users, valid \in BOOLEAN, getFails \in BOOLEAN,
       putFails \in BOOLEAN :
       /\ ~valid => (~getFails /\ ~putFails)
       /\ saveUserProfile(u, valid, getFails, putFails)
       /\ UNCHANGED <<chunker, inflight>>

\* The generation life cycle: upload, ingestion, start, pipeline, polling.
JobCount == Cardinality({j \in JobIds : jobs[j] # NoItem})

Next ==
    \/ Upload
    \/ Ingest(LifecycleTexts)
    \/ (JobCount < MaxPipelineJobs /\ Start)
    \/ Pipeline(LifecycleShapes)
    \/ Poll

Spec == Init /\ [][Next]_vars

\* Ingestion: uploads and the storage events they cause.
NextIngest == Upload \/ Ingest(Texts)

SpecIngest == Init /\ [][NextIngest]_vars

\* The pipeline runs of a started job: the first delivery of its event gets
\* every response of the model, a redelivery the lifecycle's responses.
FirstDelivery == \A j \in JobIds : deliveries[j] = 0

NextPipeline ==
    \/ (FirstDelivery /\ Pipeline(Shapes))
    \/ Pipeline(LifecycleShapes)

SpecPipeline == InitPipeline /\ [][NextPipeline]_vars

\* The chunker: calls of chunk_text with short texts and small parameters,
\* and with the default parameters on a text of three times the chunk size.
ChunkCalls ==
    {<<TextOfLength(n), size, overlap>> :
        n \in 0..MaxLen, size \in 0..MaxSize, overlap \in 0..MaxOverlap}
    \cup {<<TextOfLength(3 * ChunkSize), ChunkSize, ChunkOverlap>>}

Others == <<summaries, vectors, profiles, jobs, dispatched, deliveries, runs,
            purchases, resp>>

ChunkCall ==
    \E call \in ChunkCalls :
       /\ chunk_text_call(call[1], call[2], call[3])
       /\ UNCHANGED <<Others, inflight>>

ChunkIter == chunk_text_iter /\ UNCHANGED <<Others, inflight>>

ChunkReturn == chunk_text_return /\ UNCHANGED <<Others, inflight>>

NextChunk == ChunkCall \/ ChunkIter \/ ChunkReturn

SpecChunk == Init /\ [][NextChunk]_vars

\* Concurrent purchases and profile saves of users who have one credit.
InitRace ==
    /\ summaries = [f \in Files |-> NoItem]
    /\ vectors = [v \in VectorIds |-> NoVec]
    /\ profiles = [u \in Users |-> InitProfile(u, "one")]
    /\ jobs = [j \in JobIds |-> NoItem]
    /\ dispatched = [j \in JobIds |-> <<>>]
    /\ deliveries = [j \in JobIds |-> 0]
    /\ runs = [j \in JobIds |-> NoRun]
    /\ purchases = 0
    /\ resp = NoResp
    /\ chunker = NoCall
    /\ inflight = NoRequests

Untouched ==
    <<summaries, vectors, jobs, dispatched, deliveries, runs, resp, chunker>>

PurchaseBegins ==
    \E u \in Users, c \in CreditValues :
       WebhookRead(u, c) /\ UNCHANGED Untouched

PurchaseEnds ==
    \E r \in DOMAIN inflight : WebhookWrite(r) /\ UNCHANGED Untouched

SaveBegins ==
    \E u \in Users, getFails \in BOOLEAN :
       SaveRead(u, getFails) /\ UNCHANGED Untouched

SaveEnds ==
    \E r \in DOMAIN inflight : SaveWrite(r) /\ UNCHANGED Untouched

NextRace == PurchaseBegins \/ PurchaseEnds \/ SaveBegins \/ SaveEnds

SpecRace == InitRace /\ [][NextRace]_vars

\* Profile requests as API Gateway passes them on: caller is the subject
\* of the request's token (None: no valid token), userId the value of the
\* query string (get) or of the body (save).
ProfileRequests ==
    [op : {"getUserProfile"}, caller : MaybeUser, userId : MaybeUser]
    \cup [op : {"saveUserProfile"}, caller : MaybeUser, userId : Users]

ProfileRequestArrives ==
    /\ inflight = NoRequests
    /\ \E r \in ProfileRequests : inflight' = <<r>>
    /\ UNCHANGED <<Others, chunker>>

GetProfile ==
    /\ inflight # NoRequests
    /\ inflight[1].op = "getUserProfile"
    /\ \E getFails \in BOOLEAN :
          /\ inflight[1].userId = None => ~getFails
          /\ getUserProfile(inflight[1].userId, getFails)
    /\ inflight' = NoRequests
    /\ UNCHANGED chunker

SaveProfileOf ==
    /\ inflight # NoRequests
    /\ inflight[1].op = "saveUserProfile"
    /\ \E valid \in BOOLEAN, getFails \in BOOLEAN, putFails \in BOOLEAN :
          /\ ~valid => (~getFails /\ ~putFails)
          /\ saveUserProfile(inflight[1].userId, valid, getFails, putFails)
    /\ inflight' = NoRequests
    /\ UNCHANGED chunker

NextProfiles == ProfileRequestArrives \/ GetProfile \/ SaveProfileOf

SpecProfiles == InitCredits /\ [][NextProfiles]_vars

\* The list endpoints over tables that hold any mix of the records the
\* other handlers write.
MaxTime == 2

ListedJobs(j) ==
    {NoItem}
    \cup [jobId : {j}, userId : Users, fileId : Files,
          status : {"PROCESSING", "FAILED"}]
    \cup [jobId : {j}, userId : Users, fileId : Files,
          status : {"COMPLETED"}, completedAt : 1..MaxTime]

ListedFiles(f) ==
    {NoItem}
    \cup [fileId : {f}, userId : Users,
          processingStatus : {"PENDING", "READY_FOR_QUERY", "FAILED"}]

InitLists ==
    /\ summaries \in {t \in [Files -> UNION {ListedFiles(f) : f \in Files}] :
                        \A f \in Files : t[f] \in ListedFiles(f)}
    /\ vectors = [v \in VectorIds |-> NoVec]
    /\ profiles = [u \in Users |-> NoItem]
    /\ jobs \in {t \in [JobIds -> UNION {ListedJobs(j) : j \in JobIds}] :
                   \A j \in JobIds : t[j] \in ListedJobs(j)}
    /\ dispatched = [j \in JobIds |-> <<>>]
    /\ deliveries = [j \in JobIds |-> 0]
    /\ runs = [j \in JobIds |-> NoRun]
    /\ purchases = 0
    /\ resp = NoResp
    /\ chunker = NoCall
    /\ inflight = NoRequests

ListGenerations ==
    \E u \in MaybeUser, evaluated \in 1..MaxJobs, scanFails \in BOOLEAN :
       /\ u = None => (~scanFails /\ evaluated = MaxJobs)
       /\ scanFails => evaluated = MaxJobs
       /\ listUserGenerations(u, evaluated, scanFails)
       /\ UNCHANGED <<chunker, inflight>>

ListResumes ==
    \E u \in MaybeUser, evaluated \in 1..Cardinality(Files),
       scanFails \in BOOLEAN :
       /\ u = None => (~scanFails /\ evaluated = Cardinality(Files))
       /\ scanFails => evaluated = Cardinality(Files)
       /\ listUserResumes(u, evaluated, scanFails)
       /\ UNCHANGED <<chunker, inflight>>

NextLists == ListGenerations \/ ListResumes

SpecLists == InitLists /\ [][NextLists]_vars

\* The authentication check alone, on every event of the universe.
AuthRequest ==
    \E event \in Events :
        Authenticate(event) /\ UNCHANGED <<chunker, inflight>>

NextAuth == AuthRequest

SpecAuth == Init /\ [][NextAuth]_vars

\* Credits: purchases, profile saves and generation starts.
NextCredits == Webhook \/ SaveProfile \/ Start

SpecCredits == InitCredits /\ [][NextCredits]_vars

\* ================================================================ claims
Terminal == {"COMPLETED", "FAILED"}

\* C1: once a pipeline run for a job has finished (returned or raised), the
\* job's status is COMPLETED or FAILED.
C1_FinishedRunLeavesProcessing ==
    \A j \in JobIds :
       runs[j].outcome # "none" => jobs[j].status \in Terminal

\* C2: a job that is COMPLETED or FAILED never changes status again, whatever
\* further deliveries of its invocation event do.
C2_TerminalOnceSet ==
    [][\A j \in JobIds :
          (jobs[j] # NoItem /\ jobs[j].status \in Terminal)
             => jobs'[j].status = jobs[j].status]_vars

\* ---------------------------------------------------------------- credits
\* A step of startGeneration: it answered, and the answer is a new one.
StartStep == resp' # resp /\ resp'.op = "startGeneration"

\* The request got as far as the credit check.
ReachedCreditCheck(r) ==
    /\ r.user \in Users
    /\ r.body.error \notin {"Failed to start generation: json",
                            "fileId and jobDescription are required",
                            "File not found",
                            "You don't have permission to access this file"}

\* u has a profile with a tier other than "unlimited" and no credits left.
OutOfCredits(u) ==
    /\ u \in Users
    /\ profiles[u] # NoItem
    /\ Get(profiles[u], "subscriptionTier", "free") # "unlimited"
    /\ Has(profiles[u], "creditsRemaining")
    /\ profiles[u].creditsRemaining <= 0

\* C3 as claimed: a request of a user whose profile exists, is not
\* "unlimited" and has creditsRemaining <= 0 writes no job, dispatches
\* nothing, and is answered 403 once it reaches the credit check.
C3_OutOfCreditsAlwaysDenied ==
    [][(StartStep /\ OutOfCredits(resp'.user))
          => /\ jobs' = jobs
             /\ dispatched' = dispatched
             /\ ReachedCreditCheck(resp') => resp'.statusCode = 403]_vars

\* C3 as amended: the same, for requests whose profile lookup did not raise.
C3_OutOfCreditsDeniedWhenLookupSucceeds ==
    [][(StartStep /\ OutOfCredits(resp'.user)
        /\ "Error checking credits" \notin resp'.log)
          => /\ jobs' = jobs
             /\ dispatched' = dispatched
             /\ ReachedCreditCheck(resp') => resp'.statusCode = 403]_vars

\* A user out of credits was refused at the credit check.
C3_Witness ==
    /\ resp.op = "startGeneration"
    /\ resp.statusCode = 403
    /\ resp.body.error = "Insufficient credits"
    /\ OutOfCredits(resp.user)

\* C4: creditsRemaining of every profile is non-negative in every state.
C4_CreditsNonNegative ==
    \A u \in Users :
       (profiles[u] # NoItem /\ Has(profiles[u], "creditsRemaining"))
          => profiles[u].creditsRemaining >= 0

\* C5: a start answered 200 for a user whose profile is not "unlimited"
\* takes exactly one credit from that profile.
C5_StartTakesOneCredit ==
    [][\A u \in Users :
          (/\ StartStep
           /\ resp'.statusCode = 200
           /\ resp'.user = u
           /\ profiles[u] # NoItem
           /\ Get(profiles[u], "subscriptionTier", "free") # "unlimited")
             => /\ profiles'[u] # NoItem
                /\ Get(profiles'[u], "creditsRemaining", DefaultCredits)
                     = Get(profiles[u], "creditsRemaining", DefaultCredits) - 1
      ]_vars

\* -------------------------------------------------------- tenant isolation
\* The owner recorded on the ResumeFile of job j.
FileOwner(j) == summaries[jobs[j].fileId].userId

\* C6: every query of a pipeline run filters on the job's fileId and on the
\* owner recorded on the ResumeFile, and every chunk put in the context
\* carries that fileId and that owner.
C6_QueriesFilterOnFileAndOwner ==
    \A j \in JobIds :
       /\ \A i \in 1..Len(runs[j].queries) :
             /\ runs[j].queries[i].original_file_id = jobs[j].fileId
             /\ runs[j].queries[i].user_id = FileOwner(j)
       /\ \A c \in runs[j].context :
             /\ c.original_file_id = jobs[j].fileId
             /\ c.user_id = FileOwner(j)

\* A run that queried twice and got chunks on the retry.
C6_Witness ==
    \E j \in JobIds :
       /\ Len(runs[j].queries) = 2
       /\ runs[j].context # {}

\* C7: the chunks a job's pipeline run retrieved all belong to the user the
\* job record names.
C7_ContextBelongsToJobUser ==
    \A j \in JobIds :
       \A c \in runs[j].context : c.user_id = jobs[j].userId

\* ------------------------------------------------------------------ polling
ResultFields == {"tailoredResume", "coverLetter", "structuredData", "result"}

\* C8: the owner's poll of a COMPLETED job carries the payload the pipeline
\* stored, and of a FAILED job the errorMessage it stored.
C8_PollReturnsWhatThePipelineStored ==
    [][\A u \in Users, j \in JobIds :
          (getGenerationStatus(u, j) /\ resp'.statusCode = 200)
             => /\ jobs[j].status = "COMPLETED"
                   => \E k \in ResultFields \cap DOMAIN resp'.body :
                         resp'.body[k] = jobs[j].structuredData
                /\ jobs[j].status = "FAILED"
                   => resp'.body.errorMessage = jobs[j].errorMessage]_vars

LeakFields == {"status", "errorMessage"} \cup ResultFields

\* C9: a poll by an authenticated user other than the job's userId is
\* answered 403 and carries no status, result or errorMessage.
C9_ForeignPollForbidden ==
    [][\A u \in Users, j \in JobIds :
          (/\ getGenerationStatus(u, j)
           /\ jobs[j] # NoItem
           /\ jobs[j].userId # u)
             => /\ resp'.statusCode = 403
                /\ DOMAIN resp'.body \cap LeakFields = {}]_vars

\* Another user polled a job that the pipeline has finished.
C9_Witness ==
    /\ resp.op = "getGenerationStatus"
    /\ resp.statusCode = 403
    /\ resp.jobId \in JobIds
    /\ jobs[resp.jobId] # NoItem
    /\ jobs[resp.jobId].status \in Terminal
    /\ jobs[resp.jobId].userId # resp.user

\* C10: a 200 answer of startGeneration means the job record is written and
\* exactly one invocation was dispatched for it; after an error answer no
\* job record of that request is in the table.
C10_ErrorLeavesNoJob ==
    resp.op = "startGeneration"
       => IF resp.statusCode = 200
          THEN /\ jobs[resp.jobId] # NoItem
               /\ Len(dispatched[resp.jobId]) = 1
          ELSE resp.jobId = 0 \/ jobs[resp.jobId] = NoItem

\* ---------------------------------------------------------------- ingestion
FileTerminal == {"READY_FOR_QUERY", "FAILED"}

\* C11: a ResumeFile that has reached READY_FOR_QUERY or FAILED never changes
\* to a different processingStatus, whatever further ingestion runs for the
\* same fileId do.
C11_FileStatusOnlyMovesForward ==
    [][\A f \in Files :
          (/\ summaries[f] # NoItem
           /\ Get(summaries[f], "processingStatus", None) \in FileTerminal)
             => /\ summaries'[f] # NoItem
                /\ Get(summaries'[f], "processingStatus", None)
                     = summaries[f].processingStatus]_vars

\* The inputs of one ingestion run.
PdfInputs ==
    [keyUser : MaybeUser, fileid : Files, text : Texts, failAt : PdfFailures,
     embedded : SUBSET (0..(MaxChunks - 1)), errWriteFails : BOOLEAN]

\* The ordinals of the chunks of the document of run i.
ChunkOrdinals(i) ==
    0..(Len(chunk_text(i.text.length, ChunkSize, ChunkOverlap)) - 1)

\* Run i got as far as embedding, and get_embedding failed for a chunk.
EmbeddingFailed(i) ==
    /\ PdfError(i.keyUser, i.fileid, i.text, "none", i.embedded) = "none"
    /\ i.failAt \notin {"head", "download"}
    /\ ~(ChunkOrdinals(i) \subseteq i.embedded)

\* One of the steps of run i failed: owner extraction, metadata lookup,
\* download, text extraction, resume validation, an embedding, an upsert.
IngestionStepFailed(i) ==
    \/ PdfError(i.keyUser, i.fileid, i.text, i.failAt, i.embedded)
          \in {"no_user_in_key", "no_text", "not_a_resume"}
    \/ /\ PdfError(i.keyUser, i.fileid, i.text, i.failAt, i.embedded)
            = "service"
       /\ i.failAt \in {"head", "download", "upsert"}
    \/ EmbeddingFailed(i)

FileAfter(i) ==
    SummariesAfterPdf(i.keyUser, i.fileid, i.text, i.failAt, i.embedded,
                      i.errWriteFails)[i.fileid]

\* C12: whenever a step of an ingestion run for an uploaded file fails, the
\* run leaves the ResumeFile FAILED, with a stored error detail and an
\* errorType of VALIDATION_ERROR or PROCESSING_ERROR.
C12_StepFailureMarksFileFailed ==
    \A i \in PdfInputs :
       (summaries[i.fileid] # NoItem /\ IngestionStepFailed(i))
          => /\ Get(FileAfter(i), "processingStatus", None) = "FAILED"
             /\ Has(FileAfter(i), "summary")
             /\ Get(FileAfter(i), "errorType", None)
                   \in {"VALIDATION_ERROR", "PROCESSING_ERROR"}

\* Run i extracted the text of its document: the key names a user, the
\* object carries its fileid, and the metadata lookup and the download
\* succeeded.
TextExtracted(i) ==
    /\ i.keyUser # None
    /\ i.failAt \notin {"head", "download"}

\* C13: an ingestion run for an uploaded file whose extracted text has fewer
\* than 50 words leaves the ResumeFile FAILED with errorType
\* VALIDATION_ERROR and upserts no vector.
C13_ShortTextIsValidationError ==
    \A i \in PdfInputs :
       (/\ summaries[i.fileid] # NoItem
        /\ TextExtracted(i)
        /\ i.text.word_count < 50)
          => /\ Get(FileAfter(i), "processingStatus", None) = "FAILED"
             /\ Get(FileAfter(i), "errorType", None) = "VALIDATION_ERROR"
             /\ VectorsAfterPdf(i.keyUser, i.fileid, i.text, i.failAt,
                                i.embedded) = vectors

\* The run of i is the ingestion of the upload of the file's owner, and it
\* sets the ResumeFile to READY_FOR_QUERY.
SetsReady(i) ==
    /\ summaries[i.fileid] # NoItem
    /\ Has(summaries[i.fileid], "userId")
    /\ i.keyUser = summaries[i.fileid].userId
    /\ PdfError(i.keyUser, i.fileid, i.text, i.failAt, i.embedded) = "none"

\* The batches of the run of i that hold the vector of chunk o.
BatchesHolding(i, o) ==
    LET text_chunks == chunk_text(i.text.length, ChunkSize, ChunkOverlap)
        batches == Batches(VectorsToUpsert(text_chunks, i.embedded))
    IN {b \in DOMAIN batches :
           \E k \in 1..Len(batches[b]) : batches[b][k] = o}

\* C14: when an ingestion run sets the ResumeFile to READY_FOR_QUERY, every
\* chunk of the document is in the index under the id (fileId, ordinal)
\* with original_file_id = fileId and user_id = the owner, and was sent in
\* exactly one batch of at most 100 vectors.
C14_ReadyMeansEveryChunkIndexed ==
    \A i \in PdfInputs :
       SetsReady(i)
          => \A o \in ChunkOrdinals(i) :
                /\ VectorsAfterPdf(i.keyUser, i.fileid, i.text, i.failAt,
                                   i.embedded)[<<i.fileid, o>>]
                      = [original_file_id |-> i.fileid,
                         user_id |-> summaries[i.fileid].userId]
                /\ Cardinality(BatchesHolding(i, o)) = 1
                /\ \A b \in BatchesHolding(i, o) :
                      Len(Batches(VectorsToUpsert(
                             chunk_text(i.text.length, ChunkSize,
                                        ChunkOverlap), i.embedded))[b])
                         <= BatchSize

\* -------------------------------------------------------- schema validation
\* The jobs whose invocation event can be delivered.
Dispatched == {j \in JobIds : dispatched[j] # <<>>}

\* The run of job j in which every service answers and the model returns sh.
RunOn(j, sh) == GenRun(j, "none", "hit", "hit", sh)

\* The errors that name the required fields missing from the parts of out
\* that have the right type: top level, sections of the resume, contact,
\* entries of experience and education, cover letter, match score.
MissingOf(msg, idx, fields, v) ==
    {Err(msg, idx, k) : k \in {x \in fields : x \notin DOMAIN v.f}}

EntriesMissing(msg, fields, container) ==
    IF container.t # "list" THEN {}
    ELSE UNION {IF container.items[i].t # "dict" THEN {}
                ELSE MissingOf(msg, i - 1, fields, container.items[i]) :
                   i \in 1..Len(container.items)}

Part(v, key) ==
    IF v.t = "dict" /\ key \in DOMAIN v.f THEN v.f[key] ELSE JNull

MissingRequired(out) ==
    LET resume == Part(out, "resume")
        contact == Part(resume, "contact")
        cover_letter == Part(out, "coverLetter")
        match_score == Part(out, "matchScore")
    IN
    MissingOf("Missing field", -1, {"resume", "coverLetter", "matchScore"},
              out)
    \cup (IF resume.t # "dict" THEN {}
          ELSE MissingOf("Resume missing field", -1,
                  {"contact", "summary", "skills", "experience", "education"},
                  resume))
    \cup (IF contact.t # "dict" THEN {}
          ELSE MissingOf("Contact missing required field", -1,
                         {"name", "email"}, contact))
    \cup EntriesMissing("Experience missing field",
            {"title", "company", "startDate", "endDate", "achievements"},
            Part(resume, "experience"))
    \cup EntriesMissing("Education missing field",
            {"degree", "institution", "graduationYear"},
            Part(resume, "education"))
    \cup (IF cover_letter.t # "dict" THEN {}
          ELSE MissingOf("Cover letter missing field", -1,
                         {"companyName", "position", "paragraphs"},
                         cover_letter))
    \cup (IF match_score.t # "dict" THEN {}
          ELSE MissingOf("Match score missing field", -1,
                  {"overallScore", "skillsMatch", "experienceMatch",
                   "educationMatch", "summary", "strengths", "gaps"},
                  match_score))

Listed(validation) ==
    {validation.errors[i] : i \in 1..Len(validation.errors)}

\* C15: when the parsed output misses a required field, validation raises
\* the ValueError, and its message lists every missing required field of
\* the output, at all levels.
C15_EveryMissingFieldReported ==
    \A j \in Dispatched, sh \in Shapes :
       MissingRequired(OutputOf(sh)) # {}
          => /\ RunOn(j, sh).validation.raised = "ValueError"
             /\ MissingRequired(OutputOf(sh))
                   \subseteq Listed(RunOn(j, sh).validation)

\* A required container of out has the wrong type: resume or contact is not
\* an object, skills, experience or education is not an array, an entry of
\* experience, education or an optional section is not an object.
NotObject(v, key) ==
    v.t = "dict" /\ key \in DOMAIN v.f /\ v.f[key].t # "dict"

NotArray(v, key) ==
    v.t = "dict" /\ key \in DOMAIN v.f /\ v.f[key].t # "list"

EntryNotObject(v, key) ==
    /\ v.t = "dict" /\ key \in DOMAIN v.f /\ v.f[key].t = "list"
    /\ \E i \in 1..Len(v.f[key].items) : v.f[key].items[i].t # "dict"

WrongContainer(out) ==
    LET resume == Part(out, "resume") IN
    \/ NotObject(out, "resume")
    \/ NotObject(resume, "contact")
    \/ \E key \in {"skills", "experience", "education"} :
          NotArray(resume, key)
    \/ \E key \in {"experience", "education", "projects"} :
          EntryNotObject(resume, key)

\* C16: when a required container of the parsed output has the wrong type,
\* validation raises the ValueError, and the job's errorMessage is the
\* validation error.
C16_WrongTypeIsValidationError ==
    \A j \in Dispatched, sh \in Shapes :
       WrongContainer(OutputOf(sh))
          => /\ RunOn(j, sh).validation.raised = "ValueError"
             /\ RunOn(j, sh).kind = "value"

\* A score of the parsed output is below 0, above 100, or not a number.
BadScore(v) ==
    IF v.t = "int" THEN v.n < 0 \/ v.n > 100 ELSE TRUE

HasBadScore(out) ==
    LET match_score == Part(out, "matchScore") IN
    /\ match_score.t = "dict"
    /\ \E k \in 1..4 :
          /\ ScoreFields[k] \in DOMAIN match_score.f
          /\ BadScore(match_score.f[ScoreFields[k]])

\* C17: when one of the four scores of the parsed output is below 0, above
\* 100 or not a number, validation fails and the run does not mark the job
\* COMPLETED.
C17_BadScoreFailsValidation ==
    \A j \in Dispatched, sh \in Shapes :
       HasBadScore(OutputOf(sh))
          => /\ RunOn(j, sh).validation.raised # "none"
             /\ RunOn(j, sh).kind # "ok"

\* ------------------------------------------------------------ query retry
\* The run of job j whose two query attempts do q1 and q2, every other
\* service answering.
QueryRun(j, q1, q2) == GenRun(j, "none", q1, q2, OkShape)

\* The index gave no match to the query of job j.
NoMatch(j, q) ==
    q = "empty" \/ (q = "hit" /\ QueryRun(j, q, q).run.context = {})

\* C18: a run queries the index at most twice, the second time only when
\* the first query returned no match or raised; when the retry returns no
\* match either, the run leaves the job FAILED with the message that no
\* relevant section was found and has not called the generative model.
C18_NoContextAfterOneRetryFails ==
    \A j \in Dispatched, q1 \in QueryOutcomes, q2 \in QueryOutcomes,
       errWriteFails \in BOOLEAN :
       LET r == QueryRun(j, q1, q2)
           after == JobsAfterRun(j, r, OkShape, errWriteFails)[j]
       IN
       /\ Len(r.run.queries) <= 2
       /\ Len(r.run.queries) = 2 => (q1 = "raise" \/ NoMatch(j, q1))
       /\ (Len(r.run.queries) = 2 /\ NoMatch(j, q2))
             => /\ after.status = "FAILED"
                /\ after.errorMessage = ErrorMessage("no_context")
                /\ ~r.run.llmCalled

\* ------------------------------------------------------ purchase webhooks
\* The requests the webhook endpoint can receive.
WebhookInputs ==
    [secret : {"whsec", None}, hdrs : BOOLEAN, sig : BOOLEAN,
     kind : WebhookBodies, u : Users, c : CreditValues]

\* C19: a webhook request whose headers are missing or whose signature does
\* not verify is answered 401 and leaves the profile table unchanged,
\* whether or not the secret was loaded at cold start.
C19_UnverifiedWebhookChangesNothing ==
    \A i \in WebhookInputs :
       ~(i.hdrs /\ i.sig)
          => /\ WebhookStatus(i.secret, i.hdrs, i.sig, i.kind, FALSE, FALSE)
                   = 401
             /\ ProfilesAfterWebhook(i.secret, i.hdrs, i.sig, i.kind, i.u,
                                     i.c, FALSE, FALSE) = profiles

\* The purchase records stored for a user.
PurchaseHistory(item) == Get(item, "purchaseHistory", <<>>)

IsPrefix(a, b) ==
    Len(a) <= Len(b) /\ \A k \in 1..Len(a) : a[k] = b[k]

\* C20: no step removes or reorders a stored purchase record, and a
\* successful webhook appends exactly one record to the history of its user.
C20_PurchaseHistoryAppendOnly ==
    [][/\ \A u \in Users :
             IsPrefix(PurchaseHistory(profiles[u]),
                      PurchaseHistory(profiles'[u]))
       /\ purchases' = purchases + 1
             => \E u \in Users :
                   /\ Len(PurchaseHistory(profiles'[u]))
                         = Len(PurchaseHistory(profiles[u])) + 1
                   /\ \A v \in Users \ {u} :
                         PurchaseHistory(profiles'[v])
                            = PurchaseHistory(profiles[v])]_vars

\* ----------------------------------------------------------------- chunker
\* A call of chunk_text has returned / it was given chunk_size >
\* chunk_overlap >= 0.
Returned == chunker.pc = "returned"

Overlapping ==
    chunker.chunk_size > chunker.chunk_overlap /\ chunker.chunk_overlap >= 0

\* The first and the last k characters of a chunk (all of it when shorter).
FirstChars(chunk, k) == SubSeq(chunk, 1, IF k < Len(chunk) THEN k ELSE Len(chunk))

LastChars(chunk, k) ==
    SubSeq(chunk, IF k < Len(chunk) THEN Len(chunk) - k + 1 ELSE 1, Len(chunk))

\* C26: with chunk_size > chunk_overlap >= 0, every returned chunk has at
\* most chunk_size characters, and the last chunk_overlap characters of a
\* chunk are the first chunk_overlap characters of the next one, unless the
\* next one is the final chunk and shorter than chunk_overlap.
C26_ChunksOverlapExactly ==
    (Returned /\ Overlapping) =>
       LET chunks == chunker.chunks
           k == chunker.chunk_overlap
       IN
       /\ \A i \in 1..Len(chunks) : Len(chunks[i]) <= chunker.chunk_size
       /\ \A i \in 1..(Len(chunks) - 1) :
             (i + 1 < Len(chunks) \/ Len(chunks[i + 1]) >= k)
                => /\ Len(chunks[i + 1]) >= k
                   /\ Len(chunks[i]) >= k
                   /\ LastChars(chunks[i], k) = FirstChars(chunks[i + 1], k)

\* The first chunk followed by every later chunk without its leading
\* chunk_overlap characters (chunk[chunk_overlap:]), in index order.
RECURSIVE Rejoin(_, _, _)
Rejoin(chunks, k, i) ==
    IF i > Len(chunks) THEN <<>>
    ELSE (IF i = 1 THEN chunks[i]
          ELSE PySlice(chunks[i], k, Len(chunks[i])))
         \o Rejoin(chunks, k, i + 1)

\* C27: with chunk_size > chunk_overlap >= 0, the returned chunks rejoin to
\* the text that was chunked, and the empty text gives no chunk.
C27_ChunksRejoinToText ==
    (Returned /\ Overlapping) =>
       /\ Rejoin(chunker.chunks, chunker.chunk_overlap, 1) = chunker.text
       /\ chunker.text = <<>> => chunker.chunks = <<>>

\* C27 witness: a text cut into three chunks or more that overlap.
C27_Witness ==
    /\ Returned /\ Overlapping
    /\ chunker.chunk_overlap > 0
    /\ Len(chunker.chunks) >= 3

\* The call of the example: 3000 characters, chunk_size 1000, overlap 100.
ExampleReturned ==
    /\ Returned
    /\ Len(chunker.text) = 3 * ChunkSize
    /\ chunker.chunk_size = ChunkSize
    /\ chunker.chunk_overlap = ChunkOverlap

Lengths(chunks) == [i \in 1..Len(chunks) |-> Len(chunks[i])]

\* C28 as stated: the example gives four chunks of 1000, 1000, 1000 and 900
\* characters.
C28_ExampleLengthsAsStated ==
    ExampleReturned
       => Lengths(chunker.chunks) = <<ChunkSize, ChunkSize, ChunkSize,
                                      ChunkSize - ChunkOverlap>>

\* C28 amended: the example gives four chunks of 1000, 1000, 1000 and 300
\* characters: the last window starts at character 2700.
C28_ExampleLengths ==
    ExampleReturned
       => Lengths(chunker.chunks) = <<ChunkSize, ChunkSize, ChunkSize,
                3 * ChunkSize - 3 * (ChunkSize - ChunkOverlap)>>

\* C28 witness: the call of the example has returned four chunks.
C28_Witness == ExampleReturned /\ Len(chunker.chunks) = 4

\* The smallest number of windows of step characters that cover n.
CeilDiv(n, step) == (n + step - 1) \div step

\* C30: every iteration of the loop of chunk_text moves start forward, for
\* every chunk_size and chunk_overlap, and with chunk_size > chunk_overlap
\* the chunks never number more than ceil(len(text) / (chunk_size -
\* chunk_overlap)).
C30_StartAdvancesEveryIteration ==
    [][(chunker.pc = "loop" /\ chunker'.pc = "loop"
          /\ Len(chunker'.chunks) = Len(chunker.chunks) + 1)
       => /\ chunker'.start > chunker.start
          /\ chunker.chunk_size > chunker.chunk_overlap
                => Len(chunker'.chunks)
                      <= CeilDiv(Len(chunker.text),
                            chunker.chunk_size - chunker.chunk_overlap)]_vars

\* ------------------------------------------------------------- credit gate
\* The credit check of a request of u fails open: the profile is
\* "unlimited", there is no profile, or the lookup raised (log).
FailsOpen(u, log) ==
    \/ "Error checking credits" \in log
    \/ profiles[u] = NoItem
    \/ Get(profiles[u], "subscriptionTier", "free") = "unlimited"

\* The request went on to create the job: it wrote the job record, or the
\* write of the record is what failed.
ProceededToJobCreation(r, tbl) ==
    \/ r.jobId # 0 /\ tbl[r.jobId] # NoItem
    \/ r.body.error = "Failed to start generation: put_item"

\* C24: a start request that reaches the credit check with an "unlimited"
\* profile, with no profile, or with a raising profile lookup is not
\* refused and goes on to create the job.
C24_CreditGateFailsOpen ==
    [][(StartStep /\ ReachedCreditCheck(resp')
        /\ FailsOpen(resp'.user, resp'.log))
          => /\ resp'.statusCode # 403
             /\ ProceededToJobCreation(resp', jobs')]_vars

\* C24 witness: a start was answered 200 and wrote its job although the
\* user is out of credits, because the profile lookup raised; another user
\* has no profile.
C24_Witness ==
    /\ resp.op = "startGeneration"
    /\ resp.statusCode = 200
    /\ jobs[resp.jobId] # NoItem
    /\ "Error checking credits" \in resp.log
    /\ OutOfCredits(resp.user)

\* ------------------------------------------------------- unfinished files
\* The ResumeFile of job j is marked FAILED or is still PENDING.
FileNotReady(j) ==
    LET file_record == summaries[dispatched[j][1].fileId] IN
    /\ file_record # NoItem
    /\ file_record.processingStatus \in {"FAILED", "PENDING"}

\* C25: a pipeline run for a job whose ResumeFile is FAILED or PENDING
\* issues no vector query.
C25_UnfinishedFilesNeverQueried ==
    \A j \in Dispatched :
       FileNotReady(j) => RunOn(j, OkShape).run.queries = <<>>

\* ------------------------------------------------------ concurrent credits
\* Every request has been answered (all of them 200).
Quiescent == \A r \in DOMAIN inflight : inflight[r].pc = "done"

\* The credits of the purchase webhooks of u among the first n requests.
RECURSIVE Purchased(_, _)
Purchased(u, n) ==
    IF n = 0 THEN 0
    ELSE Purchased(u, n - 1)
         + (IF inflight[n].op = "updateUserSubscription" /\ inflight[n].u = u
            THEN inflight[n].c ELSE 0)

\* C29: once every purchase webhook and profile save has been answered,
\* creditsRemaining of a user is the starting balance (1) plus the credits
\* of the user's webhooks, and totalCreditsPurchased is their sum.
C29_NoPurchasedCreditsLost ==
    Quiescent =>
       \A u \in Users :
          /\ Has(profiles[u], "creditsRemaining")
          /\ profiles[u].creditsRemaining
                = InitProfile(u, "one").creditsRemaining
                  + Purchased(u, Len(inflight))
          /\ Get(profiles[u], "totalCreditsPurchased", 0)
                = Purchased(u, Len(inflight))

\* ---------------------------------------------------------------- C21
Checked == resp.op = "get_user_id_from_event"

BearerToken(event) ==
    /\ Len(event.header) = 2
    /\ Lower(event.header[1]) = "bearer"

\* The token is unexpired, signed by a key of the published key set, names
\* that key, and has a subject.
ValidToken(t) ==
    /\ t.kid \in PublishedKeys
    /\ t.signed_by = t.kid
    /\ ~t.expired
    /\ t.sub # None

Authentic(event) ==
    /\ BearerToken(event)
    /\ ValidToken(event.header[2])
    /\ event.fetchOk

\* C21: get_user_id_from_event returns the subject of a valid Bearer token,
\* and no user id when the header is missing or malformed or the token fails
\* any check.
C21_ValidTokenYieldsSubject ==
    Checked =>
        IF Authentic(resp.event)
        THEN resp.body.user_id = resp.event.header[2].sub
        ELSE resp.body.user_id = None

\* The half of C21 that the code keeps: an event that is not authentic
\* yields no user id.
C21_InvalidYieldsNone ==
    (Checked /\ ~Authentic(resp.event)) => resp.body.user_id = None

\* No event at all yields a user id.
C21_NeverAnyUser == Checked => resp.body.user_id = None


\* ---------------------------------------------------------------- C22
\* The step handles request r and serves it: the profile of r.userId was
\* read into the response or overwritten.
ServedProfile(r) ==
    /\ inflight = <<r>>
    /\ inflight' = NoRequests
    /\ resp'.statusCode = 200

\* C22: a get-profile or save-profile request reads or overwrites the
\* profile of user U only if the subject of the request's token is U.
C22_ProfileOnlyForAuthenticatedSubject ==
    [][\A r \in ProfileRequests : ServedProfile(r) => r.caller = r.userId]_vars

\* What the code does keep: the profile served is that of the userId the
\* request names, and no other profile changes.
C22_ProfileOfNamedUser ==
    [][\A r \in ProfileRequests :
          ServedProfile(r) =>
             /\ resp'.user = r.userId
             /\ \A u \in Users \ {r.userId} : profiles'[u] = profiles[u]]_vars

\* ---------------------------------------------------------------- C23
Answered(op) == resp.op = op /\ resp.statusCode = 200

\* The records of the table that belong to u (and, for jobs, are
\* COMPLETED).
ResumesOf(u) ==
    {Resume(summaries[f]) : f \in {x \in Files :
        summaries[x] # NoItem /\ Get(summaries[x], "userId", None) = u}}

GenerationsOf(u) ==
    {Generation(jobs[j]) : j \in {x \in JobIds :
        /\ jobs[x] # NoItem
        /\ Get(jobs[x], "userId", None) = u
        /\ Get(jobs[x], "status", None) = "COMPLETED"}}

Descending(generations) ==
    \A i, k \in DOMAIN generations :
        i < k => generations[i].completedAt >= generations[k].completedAt

NoRepeats(items) == Cardinality(Elements(items)) = Len(items)

\* C23: listUserResumes returns exactly the caller's files, and
\* listUserGenerations exactly the caller's COMPLETED jobs, most recently
\* completed first.
C23_ListsExactlyOwnRecords ==
    /\ Answered("listUserResumes") =>
          /\ Elements(resp.body.resumes) = ResumesOf(resp.user)
          /\ NoRepeats(resp.body.resumes)
    /\ Answered("listUserGenerations") =>
          /\ Elements(resp.body.generations) = GenerationsOf(resp.user)
          /\ NoRepeats(resp.body.generations)
          /\ Descending(resp.body.generations)

\* What the code keeps: every record listed is one of the caller's own (and
\* a COMPLETED one), none is repeated and the generations are in descending
\* order of completedAt.
C23_ListsOnlyOwnRecords ==
    /\ Answered("listUserResumes") =>
          /\ Elements(resp.body.resumes) \subseteq ResumesOf(resp.user)
          /\ NoRepeats(resp.body.resumes)
    /\ Answered("listUserGenerations") =>
          /\ Elements(resp.body.generations) \subseteq GenerationsOf(resp.user)
          /\ NoRepeats(resp.body.generations)
          /\ Descending(resp.body.generations)

====
